---- MODULE Spec2Model ----
(***************************************************************************)
(* High-Frequency-Snake-rs: the SPSC ring queue (src/src/ipc/spsc.rs), the *)
(* reference main loop (src/src/main.rs) and the tick engine               *)
(* (src/src/game/engine.rs, snake.rs, grid.rs).                            *)
(*                                                                         *)
(* Specifications:                                                         *)
(*   SpecRing      one producer and one consumer calling produce/consume   *)
(*                 in any interleaving, one memory access per step.        *)
(*   SpecMainLive  the two loops of main() over the same ring steps, with  *)
(*                 weak fairness of each thread.                           *)
(*   SpecGame      add_apple and tick on a small torus with two snakes.    *)
(*   SpecSolo      the same with one snake and several inputs per tick.    *)
(*   SpecRandom    the generator GameState::random.                        *)
(***************************************************************************)
EXTENDS Integers, Sequences, FiniteSets, TLC

VARIABLES
    \* ---- Spsc<T, N> (spsc.rs:9-13)
    head, tail, buffer,
    \* ---- producer thread: position inside produce() and its locals
    ppc, p_val, p_tail, p_next_tail, p_ret,
    \* ---- consumer thread: position inside consume() and its locals
    cpc, c_head, c_next_head, c_seen, c_value, c_ret,
    \* ---- observers of the ring (not program state): what each slot holds,
    \* ---- and what the ring really held when each side loaded the other index
    slot_state, p_live_at_load, c_empty_at_load,
    \* ---- histories (not program state): values accepted by produce, values
    \* ---- returned by consume, values handed to tick
    produced, consumed, ticked,
    \* ---- main(): the consumer's `inputs` Vec
    inputs,
    \* ---- GameState (engine.rs:24-33)
    snakes, num_apples, grid, buckets, tail_buckets,
    \* ---- GameState::random: position inside the call and its loop counters
    rpc, r_attempts, r_apple,
    \* ---- GameState::tick: position inside the call and its locals
    tpc, t_bucket, t_record, consumed_apples, previous_new_head, spawn_left,
    \* ---- observers of a tick (not program state): the world when the
    \* ---- combined loop of the running tick started, after Phases 1 and 2,
    \* ---- and the `inputs` slice the tick was called with
    pre_snakes, pre_grid, pre_num_apples, t_inputs,
    \* ---- observer of add_apple (not program state): the last call since the
    \* ---- last tick found num_apples at APPLE_CAPACITY
    apple_refused,
    \* ---- observer of the callers of tick (not program state): the calls of
    \* ---- tick and tick_legacy counted so far
    ticks

ringVars == <<head, tail, buffer>>
prodVars == <<ppc, p_val, p_tail, p_next_tail, p_ret>>
consVars == <<cpc, c_head, c_next_head, c_seen, c_value, c_ret>>
obsVars  == <<slot_state, p_live_at_load, c_empty_at_load>>
histVars == <<produced, consumed, ticked>>
mainVars == <<inputs>>
randVars == <<rpc, r_attempts, r_apple>>
gameVars == <<snakes, num_apples, grid, buckets, tail_buckets, randVars>>
snapVars == <<pre_snakes, pre_grid, pre_num_apples, t_inputs, apple_refused, ticks>>
tickVars == <<tpc, t_bucket, t_record, consumed_apples, previous_new_head, spawn_left, snapVars>>
queueVars == <<ringVars, prodVars, consVars, obsVars, histVars, mainVars>>
vars == <<queueVars, gameVars, tickVars>>

----------------------------------------------------------------------------
(* Bounds *)

\* N of Spsc<T, N>: a const generic, so any value is a program (main uses 1024).
RingN == 3
\* The payloads T are 1..NumValues.
NumValues == 2
\* SpecRing stops calling produce() after this many accepted values.
MaxProduced == 7

Values == 1..NumValues
Slots == 0..(RingN - 1)

\* MaybeUninit::uninit() (spsc.rs:21).
UNINIT == <<"uninit">>
\* A slot whose write is under way holds neither the old nor the new value.
TORN == <<"torn">>
Val(v) == <<"val", v>>
SlotValues == {Val(v) : v \in Values}

\* Return values: bool of produce, Option<T> of consume; PENDING before a return.
PENDING == <<"pending">>
None == <<"None">>
Some(v) == <<"Some", v>>

----------------------------------------------------------------------------
(* Spsc: pure helpers *)

\* A next_index without the wrap at N - 1.
next_index_nowrap(index) == index + 1

\* spsc.rs:26-33
next_index(index) == IF index = RingN - 1 THEN 0 ELSE index + 1

\* produce without its full test.
produce_full_unchecked(next_tail, h) == FALSE

\* A full test that looks one slot further than next_tail.
produce_full_early(next_tail, h) == (IF next_tail = RingN - 1 THEN 0 ELSE next_tail + 1) = h

\* spsc.rs:42  `if next_tail == self.head.load(Acquire) { return false; }`
produce_full(next_tail, h) == next_tail = h

\* An empty test on next_head instead of head.
consume_empty_ahead(h, t) == (IF h = RingN - 1 THEN 0 ELSE h + 1) = t

\* spsc.rs:67  `if head == self.tail.load(Acquire) { return None; }`
consume_empty(h, t) == h = t

\* Number of live items of a ring with these indices: |[head, tail)| mod N.
Live(h, t) == (t - h + RingN) % RingN

IsPrefix(s, t) == Len(s) <= Len(t) /\ SubSeq(t, 1, Len(s)) = s

----------------------------------------------------------------------------
(* Spsc::new, spsc.rs:17-23, and the two threads before their first call *)

InitRing ==
    /\ head = 0
    /\ tail = 0
    /\ buffer = [i \in Slots |-> UNINIT]
    /\ ppc = "idle" /\ p_val = 1 /\ p_tail = 0 /\ p_next_tail = 0 /\ p_ret = PENDING
    /\ cpc = "idle" /\ c_head = 0 /\ c_next_head = 0 /\ c_seen = UNINIT
    /\ c_value = 1 /\ c_ret = PENDING
    /\ slot_state = [i \in Slots |-> "uninit"]
    /\ p_live_at_load = 0
    /\ c_empty_at_load = FALSE

----------------------------------------------------------------------------
(* Spsc::produce, spsc.rs:38-58, one shared-memory access per step *)

\* spsc.rs:39-40: entry, tail.load(Relaxed), next_index(tail)
produce_load_tail(v) ==
    /\ ppc = "idle"
    /\ ppc' = "load_head"
    /\ p_val' = v
    /\ p_tail' = tail
    /\ p_next_tail' = next_index(tail)
    /\ p_ret' = PENDING
    /\ UNCHANGED <<ringVars, consVars, obsVars>>

\* spsc.rs:42-44: head.load(Acquire); full => return false
produce_load_head ==
    /\ ppc = "load_head"
    /\ p_live_at_load' = Live(head, tail)
    /\ IF produce_full(p_next_tail, head)
       THEN ppc' = "idle" /\ p_ret' = <<"false">>
       ELSE ppc' = "write" /\ p_ret' = p_ret
    /\ UNCHANGED <<ringVars, p_val, p_tail, p_next_tail, consVars,
                   slot_state, c_empty_at_load>>

\* spsc.rs:50-53: (*slot.get()).write(val) starts: the slot is neither old nor new
produce_write_begin ==
    /\ ppc = "write"
    /\ ppc' = "writing"
    /\ buffer' = [buffer EXCEPT ![p_tail] = TORN]
    /\ slot_state' = [slot_state EXCEPT ![p_tail] = "writing"]
    /\ UNCHANGED <<head, tail, p_val, p_tail, p_next_tail, p_ret, consVars,
                   p_live_at_load, c_empty_at_load>>

\* spsc.rs:50-53: the write is complete
produce_write_end ==
    /\ ppc = "writing"
    /\ ppc' = "store_tail"
    /\ buffer' = [buffer EXCEPT ![p_tail] = Val(p_val)]
    /\ slot_state' = [slot_state EXCEPT ![p_tail] = "written"]
    /\ UNCHANGED <<head, tail, p_val, p_tail, p_next_tail, p_ret, consVars,
                   p_live_at_load, c_empty_at_load>>

\* spsc.rs:55-57: tail.store(next_tail, Release); return true
produce_store_tail ==
    /\ ppc = "store_tail"
    /\ ppc' = "idle"
    /\ tail' = p_next_tail
    /\ p_ret' = <<"true">>
    /\ UNCHANGED <<head, buffer, p_val, p_tail, p_next_tail, consVars, obsVars>>

----------------------------------------------------------------------------
(* Spsc::consume, spsc.rs:63-83 *)

\* spsc.rs:64-65: entry, head.load(Relaxed), next_index(head)
consume_load_head ==
    /\ cpc = "idle"
    /\ cpc' = "load_tail"
    /\ c_head' = head
    /\ c_next_head' = next_index(head)
    /\ c_ret' = PENDING
    /\ UNCHANGED <<ringVars, prodVars, c_seen, c_value, obsVars>>

\* spsc.rs:67-69: tail.load(Acquire); empty => return None
consume_load_tail ==
    /\ cpc = "load_tail"
    /\ c_empty_at_load' = (head = tail)
    /\ IF consume_empty(c_head, tail)
       THEN cpc' = "idle" /\ c_ret' = None
       ELSE cpc' = "read" /\ c_ret' = c_ret
    /\ UNCHANGED <<ringVars, prodVars, c_head, c_next_head, c_seen, c_value,
                   slot_state, p_live_at_load>>

\* spsc.rs:75-78: assume_init_read() starts copying the slot
consume_read_begin ==
    /\ cpc = "read"
    /\ cpc' = "reading"
    /\ c_seen' = buffer[c_head]
    /\ UNCHANGED <<ringVars, prodVars, c_head, c_next_head, c_value, c_ret, obsVars>>

\* spsc.rs:75-78: the copy is complete.  A slot that was uninitialised, or that
\* the producer wrote while it was being copied, yields any bit pattern.
consume_read_end ==
    /\ cpc = "reading"
    /\ cpc' = "store_head"
    /\ IF c_seen \in SlotValues /\ buffer[c_head] = c_seen
       THEN c_value' = c_seen[2]
       ELSE c_value' \in Values
    /\ slot_state' = [slot_state EXCEPT ![c_head] =
                        IF @ = "written" THEN "read" ELSE @]
    /\ UNCHANGED <<ringVars, prodVars, c_head, c_next_head, c_seen, c_ret,
                   p_live_at_load, c_empty_at_load>>

\* spsc.rs:80-82: head.store(next_head, Release); return Some(value)
consume_store_head ==
    /\ cpc = "store_head"
    /\ cpc' = "idle"
    /\ head' = c_next_head
    /\ c_ret' = Some(c_value)
    /\ slot_state' = [slot_state EXCEPT ![c_head] =
                        IF @ = "read" THEN "consumed" ELSE @]
    /\ UNCHANGED <<tail, buffer, prodVars, c_head, c_next_head, c_seen, c_value,
                   p_live_at_load, c_empty_at_load>>

----------------------------------------------------------------------------
(* The world: types.rs, grid.rs, snake.rs, apple.rs.  The program's sizes   *)
(* (4000 x 4000 cells, 1024 snakes, 128 apples, 16-bit coordinates, 256     *)
(* buckets) are scaled down; the code is the same for every size.           *)

\* grid.rs:3-4
GRID_WIDTH == 3
GRID_HEIGHT == 3
\* snake.rs:6
SNAKE_CAPACITY == 2
\* apple.rs:4
APPLE_CAPACITY == 2
\* engine.rs:11-12
BUCKET_BITS == 1
NUM_BUCKETS == 2 ^ BUCKET_BITS
\* Bits of a coordinate: u16 in types.rs:7-8, the 16 of engine.rs:207.
COORD_BITS == 2
\* A tick gets at most this many inputs.
MaxInputs == 1
\* A tick of a world with one snake gets at most this many inputs.
MaxSoloInputs == 3

\* types.rs:6-9
Points == [x : 0..(GRID_WIDTH - 1), y : 0..(GRID_HEIGHT - 1)]
Pt(px, py) == [x |-> px, y |-> py]
\* types.rs:22-27
Directions == {"Up", "Down", "Left", "Right"}
\* grid.rs:6-11
Cells == {"Empty", "Snake", "Apple"}
SnakeIds == 0..(SNAKE_CAPACITY - 1)
BucketIds == 0..(NUM_BUCKETS - 1)
\* types.rs:40-44
Inputs == [snake_id : SnakeIds, direction : Directions]

\* Option<Point>
NoPoint == <<>>
SomePoint(pt) == <<pt>>

\* grid.rs:18-22
Grid_new == [row \in 1..GRID_HEIGHT |-> [col \in 1..GRID_WIDTH |-> "Empty"]]

\* grid.rs:24-27
get_cell(g, pt) == g[pt.y + 1][pt.x + 1]

\* grid.rs:29-32
set_cell(g, pt, cell) == [g EXCEPT ![pt.y + 1][pt.x + 1] = cell]

\* snake.rs:16-25
Snake_new(id, start_pos, initial_direction) ==
    [id |-> id, body |-> <<start_pos>>, direction |-> initial_direction, is_alive |-> TRUE]

\* A calculate_new_head that stops at the border instead of wrapping.
calculate_new_head_nowrap(snake) ==
    LET current_head == snake.body[1] IN
    CASE snake.direction = "Up" ->
            Pt(current_head.x, IF current_head.y = 0 THEN 0 ELSE current_head.y - 1)
      [] snake.direction = "Down" ->
            Pt(current_head.x,
               IF current_head.y = GRID_HEIGHT - 1 THEN current_head.y ELSE current_head.y + 1)
      [] snake.direction = "Left" ->
            Pt(IF current_head.x = 0 THEN 0 ELSE current_head.x - 1, current_head.y)
      [] snake.direction = "Right" ->
            Pt(IF current_head.x = GRID_WIDTH - 1 THEN current_head.x ELSE current_head.x + 1,
               current_head.y)

\* snake.rs:37-73
calculate_new_head(snake) ==
    LET current_head == snake.body[1] IN
    CASE snake.direction = "Up" ->
            Pt(current_head.x,
               IF current_head.y = 0 THEN GRID_HEIGHT - 1 ELSE current_head.y - 1)
      [] snake.direction = "Down" ->
            Pt(current_head.x,
               IF current_head.y = GRID_HEIGHT - 1 THEN 0 ELSE current_head.y + 1)
      [] snake.direction = "Left" ->
            Pt(IF current_head.x = 0 THEN GRID_WIDTH - 1 ELSE current_head.x - 1,
               current_head.y)
      [] snake.direction = "Right" ->
            Pt(IF current_head.x = GRID_WIDTH - 1 THEN 0 ELSE current_head.x + 1,
               current_head.y)

\* A move_forward whose new head is the diagonal neighbour of the head.
move_forward_diagonal(snake, will_grow) ==
    LET current_head == snake.body[1]
        pushed == <<Pt((current_head.x + 1) % GRID_WIDTH,
                       (current_head.y + 1) % GRID_HEIGHT)>> \o snake.body
    IN [snake EXCEPT !.body = IF will_grow THEN pushed
                               ELSE SubSeq(pushed, 1, Len(pushed) - 1)]

\* A move_forward that never drops the last segment.
move_forward_keeps_tail(snake, will_grow) ==
    [snake EXCEPT !.body = <<calculate_new_head(snake)>> \o snake.body]

\* snake.rs:27-33: push_front(new_head); if !will_grow { pop_back() }
move_forward(snake, will_grow) ==
    LET pushed == <<calculate_new_head(snake)>> \o snake.body
    IN [snake EXCEPT !.body = IF will_grow THEN pushed
                               ELSE SubSeq(pushed, 1, Len(pushed) - 1)]

\* snake.rs:78-84: the pairs change_direction refuses
is_reverse(old_direction, new_direction) ==
    <<old_direction, new_direction>> \in
        {<<"Up", "Down">>, <<"Down", "Up">>, <<"Left", "Right">>, <<"Right", "Left">>}

\* A change_direction without the reverse guard.
change_direction_unguarded(snake, new_direction) ==
    [snake EXCEPT !.direction = new_direction]

\* snake.rs:76-88
change_direction(snake, new_direction) ==
    IF ~is_reverse(snake.direction, new_direction)
    THEN [snake EXCEPT !.direction = new_direction]
    ELSE snake

\* snake.rs:115-121
tail_position(snake) ==
    IF Len(snake.body) > 0 THEN SomePoint(snake.body[Len(snake.body)]) ELSE NoPoint

\* An update_body that keeps the last segment whatever the snake ate.
update_body_grows(snake, will_grow) == move_forward(snake, TRUE)

\* snake.rs:125-127
update_body(snake, will_grow) == move_forward(snake, will_grow)

\* A mark_dead that leaves the flag as it is.
mark_dead_forgets(snake) == snake

\* snake.rs:131-133
mark_dead(snake) == [snake EXCEPT !.is_alive = FALSE]

\* snake.rs:218-224, called by GridAwareSnake::new, snake.rs:98-105
RECURSIVE update_grid_with_body(_, _, _)
update_grid_with_body(snake, g, i) ==
    IF i > Len(snake.body) THEN g
    ELSE update_grid_with_body(snake, set_cell(g, snake.body[i], "Snake"), i + 1)

\* engine.rs:207, 252: y >> (16 - BUCKET_BITS)
bucket_of(y) == y \div (2 ^ (COORD_BITS - BUCKET_BITS))

\* engine.rs:104-109, 122-127: NUM_BUCKETS empty buckets
empty_buckets == [b \in BucketIds |-> <<>>]

\* The locals of tick outside a call of it.
TickIdle ==
    /\ tpc = "idle"
    /\ t_bucket = 0
    /\ t_record = 1
    /\ consumed_apples = 0
    /\ previous_new_head = NoPoint
    /\ spawn_left = 0
    /\ pre_snakes = <<>>
    /\ pre_grid = <<>>
    /\ pre_num_apples = 0
    /\ t_inputs = <<>>
    /\ apple_refused = FALSE
    /\ ticks = 0

\* No call of GameState::random is running.
RandomReturned ==
    /\ rpc = "returned"
    /\ r_attempts = 0
    /\ r_apple = 0

\* engine.rs:120-136, GameState::new(), before any snake is pushed
InitEmptyWorld ==
    /\ RandomReturned
    /\ snakes = <<>>
    /\ num_apples = 0
    /\ grid = Grid_new
    /\ buckets = empty_buckets
    /\ tail_buckets = empty_buckets
    /\ TickIdle

----------------------------------------------------------------------------
(* SpecRing: any caller of produce and any caller of consume *)

InitHist == produced = <<>> /\ consumed = <<>> /\ ticked = <<>>

InitRingSpec == InitRing /\ InitHist /\ inputs = <<>> /\ InitEmptyWorld

RingProduceCall == \E v \in Values :
    /\ Len(produced) < MaxProduced
    /\ produce_load_tail(v)
    /\ UNCHANGED <<histVars, mainVars, gameVars, tickVars>>

RingProduceLoadHead == produce_load_head /\ UNCHANGED <<histVars, mainVars, gameVars, tickVars>>

RingProduceWriteBegin == produce_write_begin /\ UNCHANGED <<histVars, mainVars, gameVars, tickVars>>

RingProduceWriteEnd == produce_write_end /\ UNCHANGED <<histVars, mainVars, gameVars, tickVars>>

RingProduceStoreTail ==
    /\ produce_store_tail
    /\ produced' = Append(produced, p_val)
    /\ UNCHANGED <<consumed, ticked, mainVars, gameVars, tickVars>>

RingConsumeCall == consume_load_head /\ UNCHANGED <<histVars, mainVars, gameVars, tickVars>>

RingConsumeLoadTail == consume_load_tail /\ UNCHANGED <<histVars, mainVars, gameVars, tickVars>>

RingConsumeReadBegin == consume_read_begin /\ UNCHANGED <<histVars, mainVars, gameVars, tickVars>>

RingConsumeReadEnd == consume_read_end /\ UNCHANGED <<histVars, mainVars, gameVars, tickVars>>

RingConsumeStoreHead ==
    /\ consume_store_head
    /\ consumed' = Append(consumed, c_value)
    /\ UNCHANGED <<produced, ticked, mainVars, gameVars, tickVars>>

NextRing ==
    \/ RingProduceCall
    \/ RingProduceLoadHead
    \/ RingProduceWriteBegin
    \/ RingProduceWriteEnd
    \/ RingProduceStoreTail
    \/ RingConsumeCall
    \/ RingConsumeLoadTail
    \/ RingConsumeReadBegin
    \/ RingConsumeReadEnd
    \/ RingConsumeStoreHead

SpecRing == InitRingSpec /\ [][NextRing]_vars

----------------------------------------------------------------------------
(* main(): the input generator loop, main.rs:42-53, and the game logic loop, *)
(* main.rs:131-142.  The calls of produce and consume are the ring steps     *)
(* above.  game_state.tick(&inputs) is one step here: what it does to the    *)
(* world is the subject of SpecGame.                                         *)

Range(s) == {s[i] : i \in 1..Len(s)}

\* main.rs:43-49: a fresh Input, first call of produce(input)
main_produce_new(v) ==
    /\ p_ret # <<"false">>
    /\ produce_load_tail(v)

\* main.rs:49-52: produce returned false: yield_now(), call it again, same input
main_produce_retry ==
    /\ p_ret = <<"false">>
    /\ produce_load_tail(p_val)

\* main.rs:133: `while let Some(input) = consumer_queue.consume()`, the call
main_consume_call ==
    /\ c_ret = PENDING
    /\ consume_load_head

\* A push that puts the input in front of the ones collected before.
main_push_front ==
    /\ cpc = "idle"
    /\ c_ret \notin {PENDING, None}
    /\ inputs' = <<c_ret[2]>> \o inputs
    /\ c_ret' = PENDING
    /\ UNCHANGED <<ringVars, prodVars, cpc, c_head, c_next_head, c_seen, c_value, obsVars>>

\* main.rs:134: inputs.push(input)
main_push ==
    /\ cpc = "idle"
    /\ c_ret \notin {PENDING, None}
    /\ inputs' = Append(inputs, c_ret[2])
    /\ c_ret' = PENDING
    /\ UNCHANGED <<ringVars, prodVars, cpc, c_head, c_next_head, c_seen, c_value, obsVars>>

\* A loop that calls tick after every drain, whatever it collected.
main_tick_call_unguarded ==
    /\ cpc = "idle"
    /\ c_ret = None
    /\ cpc' = "tick"
    /\ UNCHANGED <<ringVars, prodVars, c_head, c_next_head, c_seen, c_value, c_ret,
                   obsVars, inputs>>

\* main.rs:138-139: consume returned None and inputs is not empty: tick(&inputs)
main_tick_call ==
    /\ cpc = "idle"
    /\ c_ret = None
    /\ inputs # <<>>
    /\ cpc' = "tick"
    /\ UNCHANGED <<ringVars, prodVars, c_head, c_next_head, c_seen, c_value, c_ret,
                   obsVars, inputs>>

\* main.rs:138: consume returned None and inputs is empty: next round of the loop
main_tick_skip ==
    /\ cpc = "idle"
    /\ c_ret = None
    /\ inputs = <<>>
    /\ c_ret' = PENDING
    /\ UNCHANGED <<ringVars, prodVars, cpc, c_head, c_next_head, c_seen, c_value,
                   obsVars, inputs>>

\* main.rs:139-140: tick returns, inputs.clear()
main_tick_return ==
    /\ cpc = "tick"
    /\ cpc' = "idle"
    /\ c_ret' = PENDING
    /\ inputs' = <<>>
    /\ UNCHANGED <<ringVars, prodVars, c_head, c_next_head, c_seen, c_value, obsVars>>

----------------------------------------------------------------------------
(* SpecMain: the two loops with exact histories; the generator stops after *)
(* MaxProduced inputs.                                                     *)

MainProduceNew == \E v \in Values :
    /\ Len(produced) < MaxProduced
    /\ main_produce_new(v)
    /\ UNCHANGED <<histVars, mainVars, gameVars, tickVars>>

MainProduceRetry == main_produce_retry /\ UNCHANGED <<histVars, mainVars, gameVars, tickVars>>

MainConsumeCall == main_consume_call /\ UNCHANGED <<histVars, mainVars, gameVars, tickVars>>

MainPush == main_push /\ UNCHANGED <<histVars, gameVars, tickVars>>

MainTickCall ==
    /\ main_tick_call
    /\ ticked' = ticked \o inputs
    /\ UNCHANGED <<produced, consumed, gameVars, tickVars>>

MainTickSkip == main_tick_skip /\ UNCHANGED <<histVars, gameVars, tickVars>>

MainTickReturn == main_tick_return /\ UNCHANGED <<histVars, gameVars, tickVars>>

MainProducerNext ==
    \/ MainProduceNew
    \/ MainProduceRetry
    \/ RingProduceLoadHead
    \/ RingProduceWriteBegin
    \/ RingProduceWriteEnd
    \/ RingProduceStoreTail

MainConsumerNext ==
    \/ MainConsumeCall
    \/ RingConsumeLoadTail
    \/ RingConsumeReadBegin
    \/ RingConsumeReadEnd
    \/ RingConsumeStoreHead
    \/ MainPush
    \/ MainTickCall
    \/ MainTickSkip
    \/ MainTickReturn

NextMain == MainProducerNext \/ MainConsumerNext

SpecMain == InitRingSpec /\ [][NextMain]_vars

----------------------------------------------------------------------------
(* SpecMainLive: the two loops as they run, the generator never stopping.   *)
(* The histories are not kept, and of the Vec `inputs` the model keeps      *)
(* which values it holds, each once in order of first arrival: the loop     *)
(* itself reads nothing of it but is_empty().  Each thread is pinned to a   *)
(* core of its own (main.rs:34, 60) and runs without blocking, which is     *)
(* weak fairness of its next step.                                          *)

push_once(s, v) == IF v \in Range(s) THEN s ELSE Append(s, v)

\* main.rs:134 under that view of inputs
live_push ==
    /\ cpc = "idle"
    /\ c_ret \notin {PENDING, None}
    /\ inputs' = push_once(inputs, c_ret[2])
    /\ c_ret' = PENDING
    /\ UNCHANGED <<ringVars, prodVars, cpc, c_head, c_next_head, c_seen, c_value, obsVars>>

LiveProduceNew == \E v \in Values : main_produce_new(v) /\ UNCHANGED <<histVars, mainVars, gameVars, tickVars>>

LiveProduceRetry == main_produce_retry /\ UNCHANGED <<histVars, mainVars, gameVars, tickVars>>

LiveProduceLoadHead == produce_load_head /\ UNCHANGED <<histVars, mainVars, gameVars, tickVars>>

LiveProduceWriteBegin == produce_write_begin /\ UNCHANGED <<histVars, mainVars, gameVars, tickVars>>

LiveProduceWriteEnd == produce_write_end /\ UNCHANGED <<histVars, mainVars, gameVars, tickVars>>

LiveProduceStoreTail == produce_store_tail /\ UNCHANGED <<histVars, mainVars, gameVars, tickVars>>

LiveConsumeCall == main_consume_call /\ UNCHANGED <<histVars, mainVars, gameVars, tickVars>>

LiveConsumeLoadTail == consume_load_tail /\ UNCHANGED <<histVars, mainVars, gameVars, tickVars>>

LiveConsumeReadBegin == consume_read_begin /\ UNCHANGED <<histVars, mainVars, gameVars, tickVars>>

LiveConsumeReadEnd == consume_read_end /\ UNCHANGED <<histVars, mainVars, gameVars, tickVars>>

LiveConsumeStoreHead == consume_store_head /\ UNCHANGED <<histVars, mainVars, gameVars, tickVars>>

LivePush == live_push /\ UNCHANGED <<histVars, gameVars, tickVars>>

LiveTickCall == main_tick_call /\ UNCHANGED <<histVars, gameVars, tickVars>>

LiveTickSkip == main_tick_skip /\ UNCHANGED <<histVars, gameVars, tickVars>>

LiveTickReturn == main_tick_return /\ UNCHANGED <<histVars, gameVars, tickVars>>

LiveProducerNext ==
    \/ LiveProduceNew
    \/ LiveProduceRetry
    \/ LiveProduceLoadHead
    \/ LiveProduceWriteBegin
    \/ LiveProduceWriteEnd
    \/ LiveProduceStoreTail

LiveConsumerNext ==
    \/ LiveConsumeCall
    \/ LiveConsumeLoadTail
    \/ LiveConsumeReadBegin
    \/ LiveConsumeReadEnd
    \/ LiveConsumeStoreHead
    \/ LivePush
    \/ LiveTickCall
    \/ LiveTickSkip
    \/ LiveTickReturn

NextMainLive == LiveProducerNext \/ LiveConsumerNext

SpecMainLive ==
    /\ InitRingSpec
    /\ [][NextMainLive]_vars
    /\ WF_vars(LiveProducerNext)
    /\ WF_vars(LiveConsumerNext)

----------------------------------------------------------------------------
(* GameState::add_apple, spawn_apple and tick, engine.rs:188-301.  tick is   *)
(* one call on one thread; it is cut into steps (input and intent phases,    *)
(* one movement record, tail clearing, one spawn_apple) so that the state    *)
(* between its phases can be examined.  Nothing else runs between the steps. *)

\* An add_apple without the capacity test.
add_apple_unchecked(position) ==
    /\ grid' = set_cell(grid, position, "Apple")
    /\ num_apples' = num_apples + 1
    /\ apple_refused' = FALSE

\* engine.rs:278-283
add_apple(position) ==
    IF num_apples < APPLE_CAPACITY
    THEN /\ grid' = set_cell(grid, position, "Apple")
         /\ num_apples' = num_apples + 1
         /\ apple_refused' = FALSE
    ELSE /\ UNCHANGED <<grid, num_apples>>
         /\ apple_refused' = TRUE

\* A Phase 1 that walks the slice from its last input to its first.
RECURSIVE apply_inputs_backwards(_, _, _)
apply_inputs_backwards(snks, ins, i) ==
    IF i > Len(ins) THEN snks
    ELSE LET input == ins[Len(ins) + 1 - i]
         IN apply_inputs_backwards(
                [snks EXCEPT ![input.snake_id] = change_direction(@, input.direction)],
                ins, i + 1)

\* engine.rs:190-192, Phase 1: change_direction for each input, in slice order
RECURSIVE apply_inputs(_, _, _)
apply_inputs(snks, ins, i) ==
    IF i > Len(ins) THEN snks
    ELSE apply_inputs(
            [snks EXCEPT ![ins[i].snake_id] = change_direction(@, ins[i].direction)],
            ins, i + 1)

\* engine.rs:16-21, 209-213
MovementRecord(snake_id, new_head) ==
    [snake_id |-> snake_id, new_head |-> new_head, cell_at_new_head |-> "Empty"]

\* A Phase 2 that also collects a record for a dead snake.
skips_snake_never(snake) == FALSE

\* engine.rs:204: if !snake.is_alive() { continue; }
skips_snake(snake) == ~snake.is_alive

\* A push that puts the record in front of the ones already in the bucket.
push_record_front(bucket, record) == <<record>> \o bucket

\* engine.rs:209: Vec::push
push_record(bucket, record) == Append(bucket, record)

\* engine.rs:203-214, Phase 2: one record per alive snake, in array order
RECURSIVE collect_records(_, _, _)
collect_records(snks, bks, i) ==
    IF i \notin DOMAIN snks THEN bks
    ELSE IF skips_snake(snks[i]) THEN collect_records(snks, bks, i + 1)
    ELSE LET new_head == calculate_new_head(snks[i])
             bucket_idx == bucket_of(new_head.y)
         IN collect_records(
                snks,
                [bks EXCEPT ![bucket_idx] = push_record(@, MovementRecord(snks[i].id, new_head))],
                i + 1)

\* engine.rs:220-223: the first record at or after (b, i) in bucket order, or
\* <<NUM_BUCKETS, 1>> when the loops are over
RECURSIVE next_record(_, _, _)
next_record(bks, b, i) ==
    IF b >= NUM_BUCKETS THEN <<NUM_BUCKETS, 1>>
    ELSE IF i <= Len(bks[b]) THEN <<b, i>>
    ELSE next_record(bks, b + 1, 1)

\* A collision test that lets every move through.
hits_snake_never(cell) == FALSE

\* engine.rs:227
hits_snake(cell) == cell = "Snake"

\* A collision that kills every snake of the array.
mark_collision_all(snks, id) == [i \in DOMAIN snks |-> mark_dead(snks[i])]

\* engine.rs:228, 235: self.snakes[record.snake_id as usize].mark_dead()
mark_collision(snks, id) == [snks EXCEPT ![id] = mark_dead(@)]

\* A tail that is queued for clearing also when the snake grows.
defers_tail_always(will_grow) == TRUE

\* engine.rs:250
defers_tail(will_grow) == ~will_grow

\* A clearing that leaves the entries of the last tick in the buckets.
clear_buckets_kept(bks) == bks

\* engine.rs:194-200: clear() on every bucket; the capacity a Vec keeps is
\* not part of its value
clear_buckets(bks) == [b \in DOMAIN bks |-> <<>>]

\* engine.rs:188-214: Phase 1, the clearing of the buckets, Phase 2
tick_begin(ins) ==
    /\ tpc = "idle"
    /\ LET snks == apply_inputs(snakes, ins, 1)
           bks == collect_records(snks, clear_buckets(buckets), 0)
           first == next_record(bks, 0, 1)
       IN /\ snakes' = snks
          /\ buckets' = bks
          /\ t_bucket' = first[1]
          /\ t_record' = first[2]
          /\ pre_snakes' = snks
    /\ pre_grid' = grid
    /\ pre_num_apples' = num_apples
    /\ t_inputs' = ins
    /\ apple_refused' = FALSE
    /\ tail_buckets' = clear_buckets(tail_buckets)
    /\ consumed_apples' = 0
    /\ previous_new_head' = NoPoint
    /\ tpc' = "heads"
    /\ UNCHANGED <<num_apples, grid, spawn_left, randVars>>

\* A head write that also clears the tail at once when the snake does not grow.
write_head_clears_tail(g, new_head, snake, will_grow) ==
    IF ~will_grow /\ tail_position(snake) # NoPoint
    THEN set_cell(set_cell(g, new_head, "Snake"), tail_position(snake)[1], "Empty")
    ELSE set_cell(g, new_head, "Snake")

\* A head write that empties the cell of an eaten apple, as tick_legacy does
\* after its move (engine.rs:169).
write_head_legacy(g, new_head, snake, will_grow) ==
    set_cell(g, new_head, IF will_grow THEN "Empty" ELSE "Snake")

\* A commit that does not write the head to the grid.
write_head_skipped(g, new_head, snake, will_grow) == g

\* engine.rs:246-255: the grid write of a record that commits; the tail of
\* the snake is not touched here, whether it grows or not
write_head(g, new_head, snake, will_grow) == set_cell(g, new_head, "Snake")

\* engine.rs:223-259, Phases 3-5 for one record
tick_record ==
    /\ tpc = "heads"
    /\ t_bucket < NUM_BUCKETS
    /\ LET record == buckets[t_bucket][t_record]
           cell == get_cell(grid, record.new_head)
           snake == snakes[record.snake_id]
           will_grow == cell = "Apple"
           next == next_record(buckets, t_bucket, t_record + 1)
       IN /\ buckets' = [buckets EXCEPT ![t_bucket][t_record].cell_at_new_head = cell]
          /\ t_bucket' = next[1]
          /\ t_record' = next[2]
          /\ IF hits_snake(cell)
             THEN /\ snakes' = mark_collision(snakes, record.snake_id)
                  /\ UNCHANGED <<grid, tail_buckets, consumed_apples, previous_new_head>>
             ELSE IF previous_new_head # NoPoint /\ record.new_head = previous_new_head[1]
             THEN /\ snakes' = mark_collision(snakes, record.snake_id)
                  /\ UNCHANGED <<grid, tail_buckets, consumed_apples, previous_new_head>>
             ELSE /\ previous_new_head' = SomePoint(record.new_head)
                  /\ consumed_apples' = IF will_grow THEN consumed_apples + 1
                                        ELSE consumed_apples
                  /\ grid' = write_head(grid, record.new_head, snake, will_grow)
                  /\ tail_buckets' =
                        IF defers_tail(will_grow) /\ tail_position(snake) # NoPoint
                        THEN LET tail_pos == tail_position(snake)[1]
                             IN [tail_buckets EXCEPT ![bucket_of(tail_pos.y)] =
                                    Append(@, tail_pos)]
                        ELSE tail_buckets
                  /\ snakes' = [snakes EXCEPT ![record.snake_id] = update_body(@, will_grow)]
    /\ UNCHANGED <<num_apples, tpc, spawn_left, snapVars, randVars>>

\* A Phase 6 that writes nothing.
clear_tails_none(g, tbs, b, i) == g

\* engine.rs:263-267: every queued tail, in bucket order
RECURSIVE clear_tails(_, _, _, _)
clear_tails(g, tbs, b, i) ==
    IF b >= NUM_BUCKETS THEN g
    ELSE IF i > Len(tbs[b]) THEN clear_tails(g, tbs, b + 1, 1)
    ELSE clear_tails(set_cell(g, tbs[b][i], "Empty"), tbs, b, i + 1)

\* engine.rs:275: tick returns and its locals are gone
tick_return ==
    /\ tpc = "done"
    /\ tpc' = "idle"
    /\ t_bucket' = 0
    /\ t_record' = 1
    /\ consumed_apples' = 0
    /\ previous_new_head' = NoPoint
    /\ spawn_left' = 0
    /\ pre_snakes' = <<>>
    /\ pre_grid' = <<>>
    /\ pre_num_apples' = 0
    /\ t_inputs' = <<>>
    /\ apple_refused' = FALSE
    /\ UNCHANGED <<gameVars, ticks>>

\* engine.rs:263-271, Phase 6, and the test that opens Phase 7
tick_clear_tails ==
    /\ tpc = "heads"
    /\ t_bucket = NUM_BUCKETS
    /\ grid' = clear_tails(grid, tail_buckets, 0, 1)
    /\ IF consumed_apples > 0
       THEN tpc' = "spawn" /\ spawn_left' = consumed_apples
       ELSE tpc' = "done" /\ spawn_left' = 0
    /\ UNCHANGED <<snakes, num_apples, buckets, tail_buckets, t_bucket, t_record,
                   consumed_apples, previous_new_head, snapVars, randVars>>

\* A spawn_apple that places the apple without counting it.
spawn_apple_uncounted(g, n) ==
    IF n >= APPLE_CAPACITY THEN {[grid |-> g, num_apples |-> n]}
    ELSE {[grid |-> set_cell(g, position, "Apple"), num_apples |-> n] :
             position \in {pt \in Points : get_cell(g, pt) = "Empty"}}
         \cup (IF \E pt \in Points : get_cell(g, pt) # "Empty"
               THEN {[grid |-> g, num_apples |-> n]}
               ELSE {})

\* A spawn_apple that takes the first position drawn, whatever the cell holds.
spawn_apple_anywhere(g, n) ==
    IF n >= APPLE_CAPACITY THEN {[grid |-> g, num_apples |-> n]}
    ELSE {[grid |-> set_cell(g, position, "Apple"), num_apples |-> n + 1] :
             position \in Points}

\* engine.rs:286-301: what one call can leave, over the positions rng can draw
\* in its 100 attempts: the first Empty cell drawn gets the apple; if every
\* draw hit an occupied cell, or the count is at capacity, nothing changes.
spawn_apple(g, n) ==
    IF n >= APPLE_CAPACITY THEN {[grid |-> g, num_apples |-> n]}
    ELSE {[grid |-> set_cell(g, position, "Apple"), num_apples |-> n + 1] :
             position \in {pt \in Points : get_cell(g, pt) = "Empty"}}
         \cup (IF \E pt \in Points : get_cell(g, pt) # "Empty"
               THEN {[grid |-> g, num_apples |-> n]}
               ELSE {})

\* engine.rs:270-274, Phase 7: one round of `for _ in 0..consumed_apples`
tick_spawn ==
    /\ tpc = "spawn"
    /\ spawn_left > 0
    /\ \E out \in spawn_apple(grid, num_apples) :
          /\ grid' = out.grid
          /\ num_apples' = out.num_apples
    /\ spawn_left' = spawn_left - 1
    /\ tpc' = IF spawn_left = 1 THEN "done" ELSE "spawn"
    /\ UNCHANGED <<snakes, buckets, tail_buckets, t_bucket, t_record,
                   consumed_apples, previous_new_head, snapVars, randVars>>

----------------------------------------------------------------------------
(* SpecGame: worlds built the way the tests build them (GameState::new, one  *)
(* GridAwareSnake::new per snake with id = index on an Empty cell), then     *)
(* add_apple on Empty cells and tick with any batch of inputs for valid ids, *)
(* up to MaxTicks calls of tick in a behaviour.                              *)

RECURSIVE place_snakes(_, _, _)
place_snakes(snks, g, i) ==
    IF i \notin DOMAIN snks THEN g
    ELSE place_snakes(snks, update_grid_with_body(snks[i], g, 1), i + 1)

Batches == UNION {[1..n -> Inputs] : n \in 0..MaxInputs}

\* The calls of tick a behaviour of the two-snake world makes.
MaxTicks == 2

InitGame ==
    /\ InitRing /\ InitHist /\ inputs = <<>>
    /\ \E pos \in [SnakeIds -> Points], dir \in [SnakeIds -> Directions] :
          /\ \A i, j \in SnakeIds : i # j => pos[i] # pos[j]
          /\ snakes = [i \in SnakeIds |-> Snake_new(i, pos[i], dir[i])]
    /\ RandomReturned
    /\ grid = place_snakes(snakes, Grid_new, 0)
    /\ num_apples = 0
    /\ buckets = empty_buckets
    /\ tail_buckets = empty_buckets
    /\ TickIdle

GameAddApple == \E position \in Points :
    /\ tpc = "idle"
    /\ get_cell(grid, position) = "Empty"
    /\ add_apple(position)
    /\ UNCHANGED <<queueVars, snakes, buckets, tail_buckets, tpc, t_bucket, t_record,
                   consumed_apples, previous_new_head, spawn_left,
                   pre_snakes, pre_grid, pre_num_apples, t_inputs, ticks, randVars>>

\* add_apple called below capacity.  A call at capacity changes no field of
\* GameState (engine.rs:279), so the two-snake world leaves those calls out;
\* the one-snake world makes them.
GameAddAppleBelowCapacity == num_apples < APPLE_CAPACITY /\ GameAddApple

GameTickBegin ==
    /\ ticks < MaxTicks
    /\ \E ins \in Batches : tick_begin(ins)
    /\ ticks' = ticks + 1
    /\ UNCHANGED queueVars

GameTickRecord == tick_record /\ UNCHANGED queueVars

GameTickClearTails == tick_clear_tails /\ UNCHANGED queueVars

GameTickSpawn == tick_spawn /\ UNCHANGED queueVars

GameTickReturn == tick_return /\ UNCHANGED queueVars

NextGame ==
    \/ GameAddAppleBelowCapacity
    \/ GameTickBegin
    \/ GameTickRecord
    \/ GameTickClearTails
    \/ GameTickSpawn
    \/ GameTickReturn

SpecGame == InitGame /\ [][NextGame]_vars

----------------------------------------------------------------------------
(* SpecSolo: the same calls on a world with one snake (tests.rs:57-79,      *)
(* 332-351), where a tick gets batches of several inputs for that snake.    *)

SoloInputs == [snake_id : {0}, direction : Directions]

SoloBatches == UNION {[1..n -> SoloInputs] : n \in 0..MaxSoloInputs}

InitSolo ==
    /\ InitRing /\ InitHist /\ inputs = <<>>
    /\ \E pos \in Points, dir \in Directions :
          snakes = [i \in {0} |-> Snake_new(i, pos, dir)]
    /\ RandomReturned
    /\ grid = place_snakes(snakes, Grid_new, 0)
    /\ num_apples = 0
    /\ buckets = empty_buckets
    /\ tail_buckets = empty_buckets
    /\ TickIdle

SoloTickBegin == \E ins \in SoloBatches : tick_begin(ins) /\ UNCHANGED <<queueVars, ticks>>

NextSolo ==
    \/ GameAddApple
    \/ SoloTickBegin
    \/ GameTickRecord
    \/ GameTickClearTails
    \/ GameTickSpawn
    \/ GameTickReturn

SpecSolo == InitSolo /\ [][NextSolo]_vars

----------------------------------------------------------------------------
(* SpecRandom: GameState::random (engine.rs:37-118), one attempt of a loop   *)
(* per step; every value drawn from rng is a choice.                         *)

\* engine.rs:55: `for _ in 0..3`, the growth steps of a new snake (3, scaled
\* so that a grown snake does not wrap onto itself on the small torus).
GROWTH_STEPS == 1
\* engine.rs:72, 96: `attempts > 1000`, scaled.
MaxAttempts == 1

\* engine.rs:53-64: grow the snake step by step, stop at the first new head
\* whose grid cell is not Empty
RECURSIVE grow(_, _, _)
grow(snake, g, k) ==
    IF k = 0 THEN [snake |-> snake, valid_growth |-> TRUE]
    ELSE LET moved == move_forward(snake, TRUE)
         IN IF get_cell(g, moved.body[1]) # "Empty"
            THEN [snake |-> moved, valid_growth |-> FALSE]
            ELSE grow(moved, g, k - 1)

\* engine.rs:81-83: GridAwareSnake::new(snake, &mut grid); random_snakes.push
push_snake(snake) ==
    /\ snakes' = [i \in DOMAIN snakes \cup {snake.id} |->
                    IF i = snake.id THEN snake ELSE snakes[i]]
    /\ grid' = update_grid_with_body(snake, grid, 1)
    /\ r_attempts' = 0
    /\ rpc' = IF snake.id + 1 >= SNAKE_CAPACITY THEN "apples" ELSE "snakes"

\* engine.rs:44-83: one round of the `loop` for the snake `index`
random_snake_attempt ==
    /\ rpc = "snakes"
    /\ LET index == Cardinality(DOMAIN snakes) IN
       \E start_pos \in Points, direction \in Directions, fallback_direction \in Directions :
          LET grown == grow(Snake_new(index, start_pos, direction), grid, GROWTH_STEPS)
          IN IF get_cell(grid, start_pos) = "Empty" /\ grown.valid_growth
             THEN push_snake(grown.snake)
             ELSE IF r_attempts + 1 > MaxAttempts
             THEN push_snake(Snake_new(index, Pt(0, 0), fallback_direction))
             ELSE /\ r_attempts' = r_attempts + 1
                  /\ UNCHANGED <<snakes, grid, rpc>>
    /\ UNCHANGED <<num_apples, buckets, tail_buckets, r_apple>>

\* engine.rs:86-101: one round of the `loop` for one apple
random_apple_attempt ==
    /\ rpc = "apples"
    /\ \E position \in Points :
          IF get_cell(grid, position) = "Empty"
          THEN /\ grid' = set_cell(grid, position, "Apple")
               /\ num_apples' = num_apples + 1
               /\ r_attempts' = 0
               /\ r_apple' = IF r_apple + 1 >= APPLE_CAPACITY THEN 0 ELSE r_apple + 1
               /\ rpc' = IF r_apple + 1 >= APPLE_CAPACITY THEN "returned" ELSE "apples"
          ELSE IF r_attempts + 1 > MaxAttempts
          THEN /\ r_attempts' = 0
               /\ r_apple' = IF r_apple + 1 >= APPLE_CAPACITY THEN 0 ELSE r_apple + 1
               /\ rpc' = IF r_apple + 1 >= APPLE_CAPACITY THEN "returned" ELSE "apples"
               /\ UNCHANGED <<grid, num_apples>>
          ELSE /\ r_attempts' = r_attempts + 1
               /\ UNCHANGED <<grid, num_apples, r_apple, rpc>>
    /\ UNCHANGED <<snakes, buckets, tail_buckets>>

\* engine.rs:38-41: the locals of random() when its first loop starts
InitRandom ==
    /\ InitRing /\ InitHist /\ inputs = <<>>
    /\ rpc = "snakes"
    /\ r_attempts = 0
    /\ r_apple = 0
    /\ snakes = <<>>
    /\ num_apples = 0
    /\ grid = Grid_new
    /\ buckets = empty_buckets
    /\ tail_buckets = empty_buckets
    /\ TickIdle

RandomSnakeAttempt == random_snake_attempt /\ UNCHANGED <<queueVars, tickVars>>

RandomAppleAttempt == random_apple_attempt /\ UNCHANGED <<queueVars, tickVars>>

NextRandom ==
    \/ RandomSnakeAttempt
    \/ RandomAppleAttempt

SpecRandom == InitRandom /\ [][NextRandom]_vars

----------------------------------------------------------------------------
(* Claims about the ring, checked under SpecRing *)

\* The slots of the half-open range [head, tail) modulo N.
LiveSlots == {(head + k) % RingN : k \in 0..(Live(head, tail) - 1)}

ConsumerStep == cpc' # cpc
ProducerStep == ppc' # ppc

\* C1: the values returned by successful consume() calls are, in order, a
\* prefix of the values for which produce() returned true.
C1_ConsumedIsPrefixOfProduced == IsPrefix(consumed, produced)

\* C1 witness: both indices have wrapped around N twice and values were consumed.
C1_Witness ==
    /\ Len(consumed) >= 2 * RingN
    /\ consumed = SubSeq(produced, 1, Len(consumed))
    /\ \E i \in 1..Len(consumed) : consumed[i] # consumed[1]

\* C2: whenever consume() is at or inside the read of slot `head`, that slot was
\* completely written, holds the next unconsumed accepted value, was not
\* consumed before, and the published tail is past it.
C2_ConsumerReadsPublishedSlot ==
    cpc \in {"read", "reading"} =>
        /\ c_head = head
        /\ c_head \in LiveSlots
        /\ slot_state[c_head] = "written"
        /\ Len(produced) > Len(consumed)
        /\ buffer[c_head] = Val(produced[Len(consumed) + 1])

\* C2 witness: the consumer is copying a slot that is used for the second time
\* while the producer is in the middle of writing another slot.
C2_Witness ==
    /\ cpc = "reading"
    /\ ppc = "writing"
    /\ Len(consumed) >= RingN

\* C3: whenever produce() is at or inside the write of slot `tail`, that slot is
\* outside [head, tail), holds no published value whose consumption is not yet
\* completed by the store to head, and the consumer is not reading it.
C3_ProducerWritesFreeSlot ==
    ppc \in {"write", "writing"} =>
        /\ p_tail = tail
        /\ p_tail \notin LiveSlots
        /\ slot_state[p_tail] \in {"uninit", "consumed", "writing"}
        /\ ~(cpc \in {"read", "reading", "store_head"} /\ c_head = p_tail)

\* C3 witness: the producer writes a slot that held a value before, while the
\* consumer is copying a different slot.
C3_Witness ==
    /\ ppc = "writing"
    /\ Len(produced) >= RingN
    /\ cpc = "reading"
    /\ c_head # p_tail

\* C4: head and tail stay in [0, N), the ring holds (tail - head) mod N items,
\* never more than N - 1, and an accepted produce() found fewer than N - 1.
C4_IndicesAndOccupancyBounded ==
    /\ head \in Slots
    /\ tail \in Slots
    /\ Len(produced) - Len(consumed) = Live(head, tail)
    /\ Len(produced) - Len(consumed) <= RingN - 1
    /\ ppc \in {"write", "writing", "store_tail"} => Live(head, tail) < RingN - 1

\* C4 witness: the ring holds N - 1 items after the indices have wrapped.
C4_Witness ==
    /\ Live(head, tail) = RingN - 1
    /\ Len(consumed) >= RingN
    /\ tail < head

\* C5: produce(v) returns false exactly when the ring held N - 1 items when it
\* loaded head, and then changes neither head, tail nor a slot and enqueues
\* nothing; otherwise it goes on to write v to slot tail, advances tail by one
\* modulo N and returns true.
C5_ProduceResult ==
    /\ [](/\ p_ret = <<"false">> => p_live_at_load = RingN - 1
          /\ p_ret = <<"true">> => /\ p_live_at_load < RingN - 1
                                /\ Len(produced) > 0
                                /\ produced[Len(produced)] = p_val)
    /\ [][(ppc = "idle" /\ ProducerStep) => UNCHANGED <<ringVars, produced>>]_vars
    /\ [][(ppc = "load_head" /\ ProducerStep) =>
            IF Live(head, tail) = RingN - 1
            THEN ppc' = "idle" /\ p_ret' = <<"false">> /\ UNCHANGED <<ringVars, produced>>
            ELSE ppc' = "write" /\ p_ret' = PENDING]_vars
    /\ [][(ppc = "store_tail" /\ ProducerStep) =>
            /\ ppc' = "idle" /\ p_ret' = <<"true">>
            /\ buffer[tail] = Val(p_val)
            /\ tail' = (tail + 1) % RingN
            /\ produced' = Append(produced, p_val)]_vars

\* C5 witness: produce() has returned false on a ring that wrapped.
C5_Witness ==
    /\ p_ret = <<"false">>
    /\ ppc = "idle"
    /\ Len(consumed) >= RingN
    /\ Live(head, tail) = RingN - 1

\* C6: consume() returns None exactly when head = tail when it loaded tail, and
\* then changes neither head, tail nor a slot; otherwise it returns the value
\* of slot head and advances head by one modulo N.
C6_ConsumeResult ==
    /\ [](/\ c_ret = None => c_empty_at_load
          /\ c_ret # None /\ c_ret # PENDING => ~c_empty_at_load)
    /\ [][(cpc = "idle" /\ ConsumerStep) => UNCHANGED <<ringVars, consumed>>]_vars
    /\ [][(cpc = "load_tail" /\ ConsumerStep) =>
            IF head = tail
            THEN cpc' = "idle" /\ c_ret' = None /\ UNCHANGED <<ringVars, consumed>>
            ELSE cpc' = "read" /\ c_ret' = PENDING]_vars
    /\ [][(cpc = "store_head" /\ ConsumerStep) =>
            /\ cpc' = "idle"
            /\ c_ret' = Some(produced[Len(consumed) + 1])
            /\ head' = (head + 1) % RingN
            /\ UNCHANGED <<tail, buffer>>]_vars

\* C6 witness: consume() has returned None on a ring that wrapped and is empty.
C6_Witness ==
    /\ c_ret = None
    /\ cpc = "idle"
    /\ Len(consumed) >= RingN
    /\ head = tail

----------------------------------------------------------------------------
(* Claims about the main loop *)

\* The generator holds an input that produce() has not accepted yet.
InputPending == ppc # "idle" \/ p_ret = <<"false">>

InputAccepted == ppc = "idle" /\ p_ret = <<"true">>

\* C7: under fair scheduling of both threads every input the generator creates
\* is eventually accepted by produce() and eventually handed to a tick call,
\* and a drain that collected inputs ends in a tick.
C7_EveryInputReachesTick ==
    /\ InputPending ~> InputAccepted
    /\ \A v \in Values :
          (InputPending /\ p_val = v) ~> (cpc = "tick" /\ v \in Range(inputs))
    /\ (inputs # <<>>) ~> (cpc = "tick")

\* C7, the part that holds: every input is eventually accepted by produce().
C7_EveryInputAccepted == InputPending ~> InputAccepted

\* C7, the part that fails, alone: collected inputs eventually reach a tick.
C7_DrainEndsInTick == (inputs # <<>>) ~> (cpc = "tick")

----------------------------------------------------------------------------
(* Claims about the world, checked under SpecGame between tick calls *)

BetweenTicks == tpc = "idle"

BodyCells(snake) == {snake.body[k] : k \in 1..Len(snake.body)}

AppleCells == {pt \in Points : get_cell(grid, pt) = "Apple"}

\* The records the last tick processed, over all buckets.
LastRecords == UNION {Range(buckets[b]) : b \in BucketIds}

\* The last tick moved snake i onto a cell that held `cell`.
MovedOnto(i, cell) ==
    \E record \in LastRecords :
        /\ record.snake_id = i
        /\ record.cell_at_new_head = cell
        /\ record.new_head = snakes[i].body[1]

\* C8: between tick calls every body segment of every alive snake is a grid
\* cell holding Snake.
C8_AliveBodiesReadSnake ==
    BetweenTicks =>
        \A i \in SnakeIds :
            snakes[i].is_alive =>
                \A pt \in BodyCells(snakes[i]) : get_cell(grid, pt) = "Snake"

\* C8 witness: a tick has moved an alive snake of length 2 or more onto an
\* Empty cell and cleared the tail it left, and a tick has moved the other
\* snake, still alive, onto an Apple.
C8_Witness ==
    /\ BetweenTicks
    /\ \E i, j \in SnakeIds :
          /\ i # j
          /\ snakes[i].is_alive /\ snakes[j].is_alive
          /\ Len(snakes[i].body) >= 2
          /\ MovedOnto(i, "Empty")
          /\ \E b \in BucketIds : \E pt \in Range(tail_buckets[b]) :
                /\ get_cell(grid, pt) = "Empty"
                /\ pt \notin BodyCells(snakes[i])
          /\ MovedOnto(j, "Apple")

\* C9: between tick calls no grid cell is a body segment of two different
\* alive snakes.
C9_NoSharedSegments ==
    BetweenTicks =>
        \A i, j \in SnakeIds :
            (i # j /\ snakes[i].is_alive /\ snakes[j].is_alive) =>
                BodyCells(snakes[i]) \cap BodyCells(snakes[j]) = {}

\* C9 witness: a tick has moved both snakes, both still alive, onto Empty
\* cells, and between them they have four body segments or more.
C9_Witness ==
    /\ BetweenTicks
    /\ \E i, j \in SnakeIds :
          /\ i # j
          /\ snakes[i].is_alive /\ snakes[j].is_alive
          /\ Len(snakes[i].body) + Len(snakes[j].body) >= 4
          /\ MovedOnto(i, "Empty")
          /\ MovedOnto(j, "Empty")

\* C10: between tick calls the number of grid cells holding Apple equals
\* num_apples, also after ticks in which an apple was eaten.
C10_AppleCellsEqualNumApples ==
    BetweenTicks => Cardinality(AppleCells) = num_apples

\* C10, what does hold: the count never falls below the cells that hold Apple
\* and never passes APPLE_CAPACITY.
C10_AppleCellsAtMostNumApples ==
    /\ Cardinality(AppleCells) <= num_apples
    /\ num_apples <= APPLE_CAPACITY

----------------------------------------------------------------------------
(* Claims about one tick.  While a tick runs, pre_snakes, pre_grid and       *)
(* pre_num_apples hold the world its combined loop started from; at "done"   *)
(* snakes, grid and num_apples hold the world it returns.                    *)

InTick == tpc # "idle"

TickDone == tpc = "done"

\* The direction of the step that leads from one cell to a neighbour of it.
step_between(from, to) ==
    CHOOSE d \in Directions :
        calculate_new_head([body |-> <<from>>, direction |-> d]) = to

\* The snakes that the running tick moves: alive when its loop started.
Movers == {i \in DOMAIN pre_snakes : pre_snakes[i].is_alive}

NewHead(i) == calculate_new_head(pre_snakes[i])

\* C11: the direction in which a tick moves a snake of length 2 or more is
\* never the opposite of the step that took it from its neck to its head,
\* whatever the batch, several inputs for the same snake included.
C11_NeverMovesIntoNeck ==
    InTick =>
        \A i \in Movers :
            Len(pre_snakes[i].body) >= 2 =>
                ~is_reverse(step_between(pre_snakes[i].body[2], pre_snakes[i].body[1]),
                            pre_snakes[i].direction)

\* C12: two runs that start from identical states and get identical batches
\* have identical states after N ticks, also when apples are eaten and
\* respawned.  Phases 1 to 6 are functions of the state and the batch, so two
\* such runs agree until a call of spawn_apple and agree after it exactly when
\* that call has one possible outcome.
C12_SameInputsSameState ==
    (tpc = "spawn" /\ spawn_left > 0) =>
        Cardinality(spawn_apple(grid, num_apples)) = 1

\* The snakes whose new_head in the running tick is the cell pt.
Contenders(pt) == {i \in Movers : NewHead(i) = pt}

\* The first of a set of snakes in array order.
First(ids) == CHOOSE i \in ids : \A j \in ids : i <= j

\* C13: when two or more alive snakes have the same new_head and that cell
\* held Empty or Apple when the tick started, the tick leaves exactly one of
\* them alive, the one with the lowest index, with its head on the cell, and
\* every other contender dead with the body it had.
C13_FirstContenderSurvives ==
    TickDone =>
        \A pt \in Points :
            (Cardinality(Contenders(pt)) >= 2 /\ get_cell(pre_grid, pt) \in {"Empty", "Apple"}) =>
                /\ snakes[First(Contenders(pt))].is_alive
                /\ snakes[First(Contenders(pt))].body[1] = pt
                /\ get_cell(grid, pt) = "Snake"
                /\ \A j \in Contenders(pt) \ {First(Contenders(pt))} :
                      /\ ~snakes[j].is_alive
                      /\ snakes[j].body = pre_snakes[j].body

\* C13 witness: a tick is done in which two snakes went for the same Apple
\* cell, the survivor grew onto it and the other one is dead.
C13_Witness ==
    /\ TickDone
    /\ \E pt \in Points :
          /\ Cardinality(Contenders(pt)) >= 2
          /\ get_cell(pre_grid, pt) = "Apple"
          /\ \E i, j \in Contenders(pt) :
                /\ i < j
                /\ snakes[i].is_alive /\ Len(snakes[i].body) = Len(pre_snakes[i].body) + 1
                /\ ~snakes[j].is_alive

\* The neighbour of a cell one step in a direction on the torus (y grows Down).
one_step(pt, d) ==
    CASE d = "Up"    -> Pt(pt.x, (pt.y + GRID_HEIGHT - 1) % GRID_HEIGHT)
      [] d = "Down"  -> Pt(pt.x, (pt.y + 1) % GRID_HEIGHT)
      [] d = "Left"  -> Pt((pt.x + GRID_WIDTH - 1) % GRID_WIDTH, pt.y)
      [] d = "Right" -> Pt((pt.x + 1) % GRID_WIDTH, pt.y)

\* The body a snake has after one step forward without growing.
Shifted(snake) ==
    <<one_step(snake.body[1], snake.direction)>> \o
        SubSeq(snake.body, 1, Len(snake.body) - 1)

ApplesOn(g) == {pt \in Points : get_cell(g, pt) = "Apple"}

\* No snake that the running tick moves has a new_head that held Apple or Snake.
AllHeadsFree ==
    \A i \in Movers : get_cell(pre_grid, NewHead(i)) \notin {"Apple", "Snake"}

C14_EveryMoverShifted ==
    (TickDone /\ t_inputs = <<>> /\ AllHeadsFree) =>
        \A i \in Movers : snakes[i].body = Shifted(pre_snakes[i])

\* The snakes whose new_head in the running tick held Apple when it started.
AppleEaters == {i \in Movers : get_cell(pre_grid, NewHead(i)) = "Apple"}

\* C15, the lengths: in a tick where exactly one snake's new_head held Apple,
\* that snake is one cell longer afterwards and no other snake changed length.
C15_OnlyTheEaterGrows ==
    (TickDone /\ Cardinality(AppleEaters) = 1) =>
        \A i \in DOMAIN snakes :
            Len(snakes[i].body) =
                Len(pre_snakes[i].body) + (IF i \in AppleEaters THEN 1 ELSE 0)

\* C15: in a tick where exactly one snake's new_head held Apple, that snake
\* is one cell longer afterwards, no other snake changed length, and the apple
\* count, num_apples and the number of Apple cells, is what it was before.
C15_GrowthLaw ==
    (TickDone /\ Cardinality(AppleEaters) = 1) =>
        /\ \A i \in DOMAIN snakes :
              Len(snakes[i].body) =
                  Len(pre_snakes[i].body) + (IF i \in AppleEaters THEN 1 ELSE 0)
        /\ num_apples = pre_num_apples
        /\ Cardinality(ApplesOn(grid)) = Cardinality(ApplesOn(pre_grid))

\* C16: for every head inside the grid and every direction calculate_new_head
\* returns the cell inside the grid one step away on one axis, wrapping W-1 to
\* 0 and 0 to W-1 on x and H-1 to 0 and 0 to H-1 on y; and every body segment
\* of every snake is inside the grid in every state.
C16_NewHeadWrapsInsideGrid ==
    /\ \A pt \in Points, d \in Directions :
          LET new_head == calculate_new_head([body |-> <<pt>>, direction |-> d])
          IN /\ new_head \in Points
             /\ new_head = one_step(pt, d)
             /\ new_head # pt
    /\ \A i \in DOMAIN snakes :
          \A k \in 1..Len(snakes[i].body) :
              /\ snakes[i].body[k].x \in 0..(GRID_WIDTH - 1)
              /\ snakes[i].body[k].y \in 0..(GRID_HEIGHT - 1)

\* C16 witness: a tick is done that moved a snake of 3 cells from row 0 up to
\* row H-1, and an earlier one took it from column W-1 to column 0.
C16_Witness ==
    /\ TickDone
    /\ \E i \in DOMAIN snakes :
          /\ snakes[i].is_alive
          /\ Len(snakes[i].body) = 3
          /\ pre_snakes[i].direction = "Up"
          /\ snakes[i].body[1].y = GRID_HEIGHT - 1
          /\ snakes[i].body[2].y = 0
          /\ snakes[i].body[2].x = 0
          /\ snakes[i].body[3].x = GRID_WIDTH - 1

Opposite(d) ==
    CASE d = "Up" -> "Down" [] d = "Down" -> "Up"
      [] d = "Left" -> "Right" [] d = "Right" -> "Left"

\* The positions of a batch that hold an input for snake i.
InputsFor(ins, i) == {k \in 1..Len(ins) : ins[k].snake_id = i}

\* The batch has one input for snake i and it asks for direction d.
OnlyInputIs(ins, i, d) ==
    /\ Cardinality(InputsFor(ins, i)) = 1
    /\ \A k \in InputsFor(ins, i) : ins[k].direction = d

\* The step that starts a tick: Phases 1 and 2.
BeginStep == tpc = "idle" /\ tpc' = "heads"

\* C17: change_direction(d) sets the direction to d exactly when d is not the
\* opposite of the current direction and otherwise changes nothing; a tick
\* whose only input for a snake is the opposite of its direction leaves the
\* direction as it was, aims the snake one cell ahead in that direction, and
\* moves it there unless the cell holds Snake or another snake aims at it too.
C17_ReverseInputIsIgnored ==
    /\ [](\A i \in DOMAIN snakes : \A d \in Directions :
            change_direction(snakes[i], d) =
                IF d = Opposite(snakes[i].direction)
                THEN snakes[i]
                ELSE [snakes[i] EXCEPT !.direction = d])
    /\ [][BeginStep =>
            \A i \in DOMAIN snakes :
                OnlyInputIs(t_inputs', i, Opposite(snakes[i].direction)) =>
                    /\ snakes'[i] = snakes[i]
                    /\ snakes[i].is_alive =>
                          calculate_new_head(pre_snakes'[i]) =
                              one_step(snakes[i].body[1], snakes[i].direction)]_vars
    /\ [](TickDone =>
            \A i \in Movers :
                (get_cell(pre_grid, NewHead(i)) # "Snake" /\ Contenders(NewHead(i)) = {i}) =>
                    /\ snakes[i].is_alive
                    /\ snakes[i].body[1] = NewHead(i)
                    /\ snakes[i].direction = pre_snakes[i].direction)

\* C17 witness: a tick is done whose only input asked a snake of 2 cells or
\* more for the opposite of the direction it kept, and the snake has moved one
\* cell in that direction.
C17_Witness ==
    /\ TickDone
    /\ \E i \in Movers :
          /\ OnlyInputIs(t_inputs, i, Opposite(pre_snakes[i].direction))
          /\ Len(pre_snakes[i].body) >= 2
          /\ snakes[i].is_alive
          /\ snakes[i].direction = pre_snakes[i].direction
          /\ snakes[i].body[1] = one_step(pre_snakes[i].body[1], pre_snakes[i].direction)
          /\ snakes[i].body[2] = pre_snakes[i].body[1]

\* Every input of the batch is addressed to a snake that is dead.
AllInputsForDead(ins, snks) ==
    /\ ins # <<>>
    /\ \A k \in 1..Len(ins) : ~snks[ins[k].snake_id].is_alive

AddAppleStep == tpc = "idle" /\ tpc' = "idle"

\* C19: add_apple called with num_apples at APPLE_CAPACITY changes neither
\* num_apples nor a grid cell; called below it, it sets the apple's cell to
\* Apple and adds one to num_apples; and num_apples never exceeds
\* APPLE_CAPACITY, whatever add_apple and tick calls came before.
C19_AddAppleRespectsCapacity ==
    /\ [](num_apples <= APPLE_CAPACITY)
    /\ [][AddAppleStep =>
            IF num_apples >= APPLE_CAPACITY
            THEN /\ apple_refused'
                 /\ num_apples' = num_apples
                 /\ grid' = grid
            ELSE /\ ~apple_refused'
                 /\ num_apples' = num_apples + 1
                 /\ Cardinality(ApplesOn(grid') \ ApplesOn(grid)) = 1
                 /\ \A pt \in Points :
                       get_cell(grid', pt) # get_cell(grid, pt) =>
                           get_cell(grid', pt) = "Apple"]_vars

\* C19 witness: add_apple was called at capacity after a tick in which an
\* apple was eaten, so the grid holds fewer Apple cells than APPLE_CAPACITY.
C19_Witness ==
    /\ tpc = "idle"
    /\ apple_refused
    /\ num_apples = APPLE_CAPACITY
    /\ Cardinality(ApplesOn(grid)) < APPLE_CAPACITY
    /\ \E i \in DOMAIN snakes : Len(snakes[i].body) >= 2

----------------------------------------------------------------------------
(* Claims about GameState::random, checked under SpecRandom *)

RandomDone == rpc = "returned"

\* C20: the state random() returns has exactly SNAKE_CAPACITY snakes, each
\* alive, with id equal to its index and a body of the initial cell plus one
\* cell per growth step (4 in the program), and exactly APPLE_CAPACITY
\* apples, on every path, the exhausted attempt limit included.
C20_RandomWorldIsFull ==
    RandomDone =>
        /\ DOMAIN snakes = 0..(SNAKE_CAPACITY - 1)
        /\ \A i \in DOMAIN snakes :
              /\ snakes[i].is_alive
              /\ snakes[i].id = i
              /\ Len(snakes[i].body) = GROWTH_STEPS + 1
        /\ num_apples = APPLE_CAPACITY
        /\ Cardinality(ApplesOn(grid)) = APPLE_CAPACITY

\* C20, what does hold on every path: SNAKE_CAPACITY alive snakes with id =
\* index, each either fully grown or the one-cell fallback at (0,0), and as
\* many Apple cells as num_apples says, at most APPLE_CAPACITY.
C20_RandomWorldOrFallback ==
    RandomDone =>
        /\ DOMAIN snakes = 0..(SNAKE_CAPACITY - 1)
        /\ \A i \in DOMAIN snakes :
              /\ snakes[i].is_alive
              /\ snakes[i].id = i
              /\ \/ Len(snakes[i].body) = GROWTH_STEPS + 1
                 \/ snakes[i].body = <<Pt(0, 0)>>
              /\ \A pt \in BodyCells(snakes[i]) : get_cell(grid, pt) = "Snake"
        /\ num_apples <= APPLE_CAPACITY
        /\ Cardinality(ApplesOn(grid)) = num_apples

\* C20: the fallback can put a snake on a cell that another snake holds.
C20_RandomSnakesDisjoint ==
    RandomDone =>
        \A i, j \in DOMAIN snakes :
            i # j => BodyCells(snakes[i]) \cap BodyCells(snakes[j]) = {}

\* C21: in the state random() returns no cell belongs to two snakes, no apple
\* lies on a snake cell, every body cell reads Snake and the number of Apple
\* cells is num_apples, also when the fallback snake at (0,0) was placed.
C21_RandomWorldNoOverlap ==
    RandomDone =>
        /\ \A i, j \in DOMAIN snakes :
              i # j => BodyCells(snakes[i]) \cap BodyCells(snakes[j]) = {}
        /\ \A i \in DOMAIN snakes :
              \A pt \in BodyCells(snakes[i]) :
                  get_cell(grid, pt) # "Apple" /\ get_cell(grid, pt) = "Snake"
        /\ Cardinality(ApplesOn(grid)) = num_apples

\* C21, the part that holds on every path: the grid agrees with the bodies
\* and with the count, and two snakes that were both grown by the loop share
\* no cell.
C21_RandomGridAgrees ==
    RandomDone =>
        /\ \A i, j \in DOMAIN snakes :
              (i # j /\ Len(snakes[i].body) > 1 /\ Len(snakes[j].body) > 1) =>
                  BodyCells(snakes[i]) \cap BodyCells(snakes[j]) = {}
        /\ \A i \in DOMAIN snakes :
              \A pt \in BodyCells(snakes[i]) : get_cell(grid, pt) = "Snake"
        /\ Cardinality(ApplesOn(grid)) = num_apples

----------------------------------------------------------------------------
(* Claims about the combined loop of tick, engine.rs:220-260 *)

\* The place <<bucket, index>> of snake i's record in the buckets.
RecordPos(i) ==
    CHOOSE pos \in BucketIds \X (1..SNAKE_CAPACITY) :
        /\ pos[2] <= Len(buckets[pos[1]])
        /\ buckets[pos[1]][pos[2]].snake_id = i

RecordOf(i) == buckets[RecordPos(i)[1]][RecordPos(i)[2]]

\* Snake j's record is processed before snake i's: bucket by bucket, and
\* inside a bucket in the order of the pushes.
ProcessedBefore(j, i) ==
    \/ RecordPos(j)[1] < RecordPos(i)[1]
    \/ RecordPos(j)[1] = RecordPos(i)[1] /\ RecordPos(j)[2] < RecordPos(i)[2]

\* Snake j's record was processed without a collision and its head written.
Committed(j) == snakes[j].is_alive /\ snakes[j].body[1] = NewHead(j)

\* C22: a snake alive at the start of a tick is dead at its end exactly when
\* the cell at its new_head read Snake when its record was processed, that is
\* when the cell held Snake at the start of the tick or an earlier record of
\* the tick committed its head there; otherwise it is alive at the end and
\* its head is new_head.
C22_DeadIffTargetReadSnake ==
    TickDone =>
        \A i \in Movers :
            /\ ~snakes[i].is_alive <=> RecordOf(i).cell_at_new_head = "Snake"
            /\ RecordOf(i).cell_at_new_head = "Snake" <=>
                  \/ get_cell(pre_grid, NewHead(i)) = "Snake"
                  \/ \E j \in Movers :
                        /\ ProcessedBefore(j, i)
                        /\ NewHead(j) = NewHead(i)
                        /\ Committed(j)
            /\ snakes[i].is_alive => snakes[i].body[1] = NewHead(i)

\* C22 witness: a tick is done in which one snake ran into a cell of the
\* other one's body and is dead, and the other one, 2 cells or longer, has
\* moved on.
C22_Witness ==
    /\ TickDone
    /\ \E i, j \in Movers :
          /\ i # j
          /\ NewHead(i) \in BodyCells(pre_snakes[j])
          /\ RecordOf(i).cell_at_new_head = "Snake"
          /\ ~snakes[i].is_alive
          /\ Len(pre_snakes[j].body) >= 2
          /\ Committed(j)

\* The snakes the running tick moved and left alive.
Survivors == {i \in Movers : snakes[i].is_alive}

\* The cell at snake i's new_head held Apple when the tick started.
Ate(i) == get_cell(pre_grid, NewHead(i)) = "Apple"

\* The last segment snake i had when the tick started.
OldTail(i) == pre_snakes[i].body[Len(pre_snakes[i].body)]

\* The body, the length and the head cell of a survivor, and the tail cell
\* of one that grew.
SurvivorBody(i) ==
    /\ snakes[i].body =
          IF Ate(i) THEN <<NewHead(i)>> \o pre_snakes[i].body
          ELSE <<NewHead(i)>> \o SubSeq(pre_snakes[i].body, 1, Len(pre_snakes[i].body) - 1)
    /\ Len(snakes[i].body) = Len(pre_snakes[i].body) + (IF Ate(i) THEN 1 ELSE 0)
    /\ RecordOf(i).cell_at_new_head = (IF Ate(i) THEN "Apple" ELSE "Empty")
    /\ get_cell(grid, NewHead(i)) = "Snake"
    /\ Ate(i) =>
          /\ get_cell(grid, OldTail(i)) = "Snake"
          /\ snakes[i].body[Len(snakes[i].body)] = OldTail(i)

\* C23 as stated: for a snake that survives a tick the new body is new_head
\* followed by the old body, the old last segment dropped exactly when the
\* target cell did not hold Apple; after the tick the new head cell reads
\* Snake, the old tail cell reads Empty if the snake did not grow and still
\* reads Snake, and is the last segment, if it grew.
C23_SurvivorBodyAndTail ==
    TickDone =>
        \A i \in Survivors :
            /\ SurvivorBody(i)
            /\ ~Ate(i) => get_cell(grid, OldTail(i)) = "Empty"

\* Phase 6 is over and Phase 7 has not placed an apple yet.
TailsCleared ==
    \/ tpc = "spawn" /\ spawn_left = consumed_apples
    \/ tpc = "done" /\ consumed_apples = 0

\* C23 amended: as stated, except that the old tail cell of a snake that did
\* not grow reads Empty when tail clearing is over and, after the tick,
\* reads Empty or holds an apple that Phase 7 of that tick respawned.
C23_SurvivorBodyTailOrRespawn ==
    /\ TailsCleared =>
          \A i \in Survivors : ~Ate(i) => get_cell(grid, OldTail(i)) = "Empty"
    /\ TickDone =>
          \A i \in Survivors :
              /\ SurvivorBody(i)
              /\ ~Ate(i) =>
                    \/ get_cell(grid, OldTail(i)) = "Empty"
                    \/ /\ get_cell(grid, OldTail(i)) = "Apple"
                       /\ consumed_apples > 0
                       /\ num_apples > pre_num_apples

\* C23 witness: a tick is done in which one snake of 2 cells or more moved
\* without growing and left its old tail cell Empty, and the other one ate,
\* grew and kept its tail.
C23_Witness ==
    /\ TickDone
    /\ \E i, j \in Survivors :
          /\ i # j
          /\ ~Ate(i) /\ Len(pre_snakes[i].body) >= 2
          /\ get_cell(grid, OldTail(i)) = "Empty"
          /\ Ate(j) /\ Len(snakes[j].body) = Len(pre_snakes[j].body) + 1
          /\ snakes[j].body[Len(snakes[j].body)] = OldTail(j)

----------------------------------------------------------------------------
(* Claims about the shape of a snake *)

\* Two cells are orthogonal neighbours on the torus.
Adjacent(a, b) == \E d \in Directions : one_step(a, d) = b

\* C24: after any number of ticks from a well-formed world every snake, alive
\* or dead, has a body of at least 1 segment, and every two consecutive
\* segments are orthogonal neighbours on the torus.
C24_BodiesAreChains ==
    \A i \in DOMAIN snakes :
        /\ Len(snakes[i].body) >= 1
        /\ \A k \in 1..(Len(snakes[i].body) - 1) :
              Adjacent(snakes[i].body[k + 1], snakes[i].body[k])

\* C24 witness: ticks have grown a snake to 3 segments, two of them on
\* opposite borders of the grid, and a later tick has killed it.
C24_Witness ==
    /\ BetweenTicks
    /\ \E i \in DOMAIN snakes :
          /\ ~snakes[i].is_alive
          /\ Len(snakes[i].body) = 3
          /\ \E k \in 1..2 :
                \/ {snakes[i].body[k].x, snakes[i].body[k + 1].x} = {0, GRID_WIDTH - 1}
                \/ {snakes[i].body[k].y, snakes[i].body[k + 1].y} = {0, GRID_HEIGHT - 1}

----------------------------------------------------------------------------
(* Claims about Phases 1 and 2 of tick, engine.rs:189-214 *)

\* change_direction folded over the inputs of a batch that are addressed to
\* snake i, from input k on, in slice order.
RECURSIVE FoldFor(_, _, _, _)
FoldFor(snake, ins, i, k) ==
    IF k > Len(ins) THEN snake
    ELSE FoldFor(IF ins[k].snake_id = i
                 THEN change_direction(snake, ins[k].direction)
                 ELSE snake,
                 ins, i, k + 1)

\* The records for snake i in a value of the buckets.
RecordsFor(bks, i) ==
    {pos \in UNION {{<<b, k>> : k \in 1..Len(bks[b])} : b \in BucketIds} :
        bks[pos[1]][pos[2]].snake_id = i}

\* C25: within one tick all inputs are applied, in slice order, before any
\* new_head is computed: after Phase 1 each snake is the fold of
\* change_direction over the tick's inputs for it, the record Phase 2 makes
\* for it aims one cell from its head in the folded direction, and a snake
\* the tick leaves alive has moved there; so a valid change of direction
\* takes effect in the tick that carries it.
C25_InputsFoldedBeforeIntents ==
    /\ [][BeginStep =>
            \A i \in DOMAIN snakes :
                /\ snakes'[i] = FoldFor(snakes[i], t_inputs', i, 1)
                /\ snakes[i].is_alive =>
                      \A pos \in RecordsFor(buckets', i) :
                          buckets'[pos[1]][pos[2]].new_head =
                              one_step(snakes[i].body[1],
                                       FoldFor(snakes[i], t_inputs', i, 1).direction)
                /\ \A d \in Directions :
                      (OnlyInputIs(t_inputs', i, d) /\ d # Opposite(snakes[i].direction)) =>
                          snakes'[i].direction = d]_vars
    /\ [](TickDone =>
            \A i \in Survivors :
                /\ snakes[i].direction = pre_snakes[i].direction
                /\ snakes[i].body[1] =
                      one_step(pre_snakes[i].body[1], pre_snakes[i].direction))

\* C25 witness: a tick is done whose batch held two inputs for a snake of 2
\* cells or more, the second the opposite of the first; the first was
\* applied, the second refused, and the snake has moved in the direction of
\* the first.
C25_Witness ==
    /\ TickDone
    /\ \E i \in Survivors :
          /\ Len(t_inputs) = 2
          /\ InputsFor(t_inputs, i) = {1, 2}
          /\ t_inputs[2].direction = Opposite(t_inputs[1].direction)
          /\ Len(pre_snakes[i].body) >= 2
          /\ snakes[i].direction = t_inputs[1].direction
          /\ snakes[i].body[1] = one_step(pre_snakes[i].body[1], t_inputs[1].direction)
          /\ snakes[i].body[2] = pre_snakes[i].body[1]

----------------------------------------------------------------------------
(* Claims about the order of head writes and tail clears, engine.rs:246-267 *)

\* The head pass of a tick: from the first record to the last one processed.
HeadPass == tpc = "heads"

\* C26: during the whole head pass every cell that was part of a snake body
\* when the tick started still reads Snake (tails are written Empty only
\* after all heads are committed), so a snake whose new_head is the cell that
\* another snake's tail, or its own, leaves in the same tick dies, whatever
\* the order of the two records.
C26_TailsOutliveTheHeadPass ==
    /\ HeadPass =>
          \A j \in DOMAIN pre_snakes :
              \A pt \in BodyCells(pre_snakes[j]) : get_cell(grid, pt) = "Snake"
    /\ TickDone =>
          \A i \in Movers : \A j \in Movers :
              NewHead(i) = OldTail(j) =>
                  /\ ~snakes[i].is_alive
                  /\ snakes[i].body = pre_snakes[i].body

\* C26 witness: a tick is done in which a snake of 2 cells or more moved on
\* without growing, its record processed first, the other snake aimed at the
\* tail cell it left and is dead, and the cell reads Empty.
C26_Witness ==
    /\ TickDone
    /\ \E i, j \in Movers :
          /\ i # j
          /\ Len(pre_snakes[j].body) >= 2
          /\ ProcessedBefore(j, i)
          /\ Committed(j) /\ ~Ate(j)
          /\ NewHead(i) = OldTail(j)
          /\ ~snakes[i].is_alive
          /\ get_cell(grid, OldTail(j)) = "Empty"

\* The step of the combined loop that processes one record.
RecordStep == tpc = "heads" /\ t_bucket < NUM_BUCKETS

\* The record the next step of the combined loop processes.
CurrentRecord == buckets[t_bucket][t_record]

\* C27: a snake whose new_head is a cell of its own body is marked dead in
\* that tick; the step that processes its record reads Snake from the grid
\* and changes neither a body nor the grid, and when it is the only snake
\* that moves the tick returns the grid it started from.
C27_SelfCollisionKills ==
    /\ [][(RecordStep /\ CurrentRecord.new_head
                            \in BodyCells(snakes[CurrentRecord.snake_id])) =>
            /\ get_cell(grid, CurrentRecord.new_head) = "Snake"
            /\ ~snakes'[CurrentRecord.snake_id].is_alive
            /\ \A i \in DOMAIN snakes : snakes'[i].body = snakes[i].body
            /\ grid' = grid
            /\ num_apples' = num_apples]_vars
    /\ [](TickDone =>
            \A i \in Movers :
                NewHead(i) \in BodyCells(pre_snakes[i]) =>
                    /\ ~snakes[i].is_alive
                    /\ snakes[i].body = pre_snakes[i].body
                    /\ RecordOf(i).cell_at_new_head = "Snake"
                    /\ \A pt \in BodyCells(snakes[i]) : get_cell(grid, pt) = "Snake"
                    /\ Movers = {i} => (grid = pre_grid /\ num_apples = pre_num_apples))

\* C27 witness: a tick is done that aimed a snake of 3 cells at its own tail
\* cell across the border; the snake is dead and the grid is the one the
\* tick started from.
C27_Witness ==
    /\ TickDone
    /\ \E i \in Movers :
          /\ Len(pre_snakes[i].body) = 3
          /\ NewHead(i) = OldTail(i)
          /\ ~snakes[i].is_alive
          /\ snakes[i].body = pre_snakes[i].body
          /\ grid = pre_grid

----------------------------------------------------------------------------
(* Claims about Phase 7 of tick and spawn_apple, engine.rs:269-301 *)

\* One call of spawn_apple from Phase 7.
SpawnStep == tpc = "spawn"

\* The cells whose content differs between two grids.
Changed(g, h) == {pt \in Points : get_cell(g, pt) # get_cell(h, pt)}

\* C28: for each apple consumed in a tick there is one call of spawn_apple;
\* a call writes Apple to at most one cell, only to a cell that reads Empty
\* after tail clearing, and to none when num_apples is at APPLE_CAPACITY or
\* no attempt drew an Empty cell; num_apples is incremented exactly when a
\* cell is written.
C28_RespawnOnlyOnEmpty ==
    /\ [][SpawnStep =>
            /\ Cardinality(Changed(grid, grid')) <= 1
            /\ \A pt \in Changed(grid, grid') :
                  get_cell(grid, pt) = "Empty" /\ get_cell(grid', pt) = "Apple"
            /\ num_apples >= APPLE_CAPACITY => grid' = grid
            /\ num_apples' = num_apples + Cardinality(Changed(grid, grid'))
            /\ spawn_left' = spawn_left - 1
            /\ snakes' = snakes]_vars
    /\ []((tpc = "spawn" /\ spawn_left = consumed_apples) =>
            consumed_apples = Cardinality({i \in Survivors : Ate(i)}))
    /\ [](TickDone =>
            /\ Cardinality(ApplesOn(grid) \ ApplesOn(pre_grid)) <= consumed_apples
            /\ num_apples = pre_num_apples
                              + Cardinality(ApplesOn(grid) \ ApplesOn(pre_grid)))

\* C28 witness: a tick is done in which one snake ate and the apple was
\* respawned on the cell the other snake's tail left in that tick.
C28_Witness ==
    /\ TickDone
    /\ consumed_apples = 1
    /\ num_apples = pre_num_apples + 1
    /\ \E j \in Survivors :
          /\ ~Ate(j)
          /\ get_cell(pre_grid, OldTail(j)) = "Snake"
          /\ get_cell(grid, OldTail(j)) = "Apple"

\* C28, the other case: a tick is done in which an apple was eaten with
\* num_apples at APPLE_CAPACITY, and nothing was respawned.
C28_WitnessAtCapacity ==
    /\ TickDone
    /\ consumed_apples = 1
    /\ pre_num_apples = APPLE_CAPACITY
    /\ Cardinality(ApplesOn(grid)) = Cardinality(ApplesOn(pre_grid)) - 1

----------------------------------------------------------------------------
(* Claims about what a tick does to the apples on the grid *)

\* The positions queued for tail clearing, over all tail buckets.
QueuedTails == UNION {Range(tail_buckets[b]) : b \in BucketIds}

\* C29: a tick changes a cell holding Apple only by turning it into Snake
\* when a snake that survives commits its head there; every other Apple cell
\* still holds Apple after the tick, and tail clearing never writes to an
\* Apple cell.
C29_ApplesOnlyEaten ==
    /\ [][\A pt \in Points :
            (get_cell(grid, pt) = "Apple" /\ get_cell(grid', pt) # "Apple") =>
                /\ RecordStep
                /\ CurrentRecord.new_head = pt
                /\ get_cell(grid', pt) = "Snake"
                /\ snakes'[CurrentRecord.snake_id].is_alive
                /\ snakes'[CurrentRecord.snake_id].body[1] = pt]_vars
    /\ [](HeadPass => \A pt \in QueuedTails : get_cell(grid, pt) = "Snake")
    /\ [](TickDone =>
            \A pt \in ApplesOn(pre_grid) :
                \/ get_cell(grid, pt) = "Apple"
                \/ /\ get_cell(grid, pt) = "Snake"
                   /\ \E i \in Survivors : Ate(i) /\ snakes[i].body[1] = pt)

\* C29 witness: a tick is done in which one snake ate one of two apples, the
\* other snake moved and had its tail cleared, and the other apple is where
\* it was.
C29_Witness ==
    /\ TickDone
    /\ Cardinality(ApplesOn(pre_grid)) = 2
    /\ \E i, j \in Survivors :
          /\ i # j
          /\ Ate(i) /\ get_cell(grid, NewHead(i)) = "Snake"
          /\ ~Ate(j) /\ OldTail(j) \in QueuedTails
          /\ get_cell(grid, OldTail(j)) = "Empty"
          /\ \E pt \in ApplesOn(pre_grid) : pt # NewHead(i) /\ get_cell(grid, pt) = "Apple"

----------------------------------------------------------------------------
(* Claims about the buckets, engine.rs:11-14, 194-214 *)

\* The places <<bucket, index>> of all entries of a value of the buckets.
AllPositions(bks) == UNION {{<<b, k>> : k \in 1..Len(bks[b])} : b \in BucketIds}

\* The values a coordinate of COORD_BITS bits can have.
Coordinates == 0..(2 ^ COORD_BITS - 1)

\* C30: in every tick Phase 2 emits exactly one movement record for each
\* snake alive after the inputs were applied and none for a dead snake, each
\* in the bucket of its new_head.y; no record or tail entry of an earlier
\* tick is in a bucket; and the bucket index y >> (16 - BUCKET_BITS) is below
\* NUM_BUCKETS for every y of 16 bits.
C30_OneRecordPerAliveSnake ==
    /\ [][BeginStep =>
            /\ \A i \in DOMAIN snakes :
                  Cardinality(RecordsFor(buckets', i)) =
                      IF snakes'[i].is_alive THEN 1 ELSE 0
            /\ Cardinality(AllPositions(buckets')) =
                  Cardinality({i \in DOMAIN snakes : snakes'[i].is_alive})
            /\ \A pos \in AllPositions(buckets') :
                  LET record == buckets'[pos[1]][pos[2]]
                  IN /\ record.snake_id \in DOMAIN snakes
                     /\ record.new_head = calculate_new_head(snakes'[record.snake_id])
                     /\ record.cell_at_new_head = "Empty"
                     /\ pos[1] = bucket_of(record.new_head.y)
            /\ AllPositions(tail_buckets') = {}]_vars
    /\ [](InTick =>
            /\ Cardinality(AllPositions(buckets)) = Cardinality(Movers)
            /\ Cardinality(AllPositions(tail_buckets)) <= Cardinality(Movers)
            /\ \A pt \in QueuedTails : \E i \in Movers : pt = OldTail(i))
    /\ [](\A y \in Coordinates : bucket_of(y) \in BucketIds)

\* C30 witness: a tick has begun in a world where an earlier tick killed one
\* snake; the buckets hold one record, for the snake that is alive, in the
\* bucket of its new_head.y, and no tail entry.
C30_Witness ==
    /\ HeadPass
    /\ previous_new_head = NoPoint
    /\ AllPositions(tail_buckets) = {}
    /\ \E i, j \in DOMAIN snakes :
          /\ ~snakes[i].is_alive
          /\ ticks = MaxTicks
          /\ snakes[j].is_alive
          /\ RecordsFor(buckets, i) = {}
          /\ AllPositions(buckets) = RecordsFor(buckets, j)
          /\ Cardinality(RecordsFor(buckets, j)) = 1
          /\ bucket_of(NewHead(j).y) = NUM_BUCKETS - 1

----------------------------------------------------------------------------
(* Claims about the whole of tick *)

\* The records of the running tick that the combined loop has not reached.
RecordsLeft ==
    Cardinality({pos \in AllPositions(buckets) :
                    \/ pos[1] > t_bucket
                    \/ pos[1] = t_bucket /\ pos[2] >= t_record})

\* The number of steps a running tick can still take, at most.
TickRank ==
    CASE tpc = "idle"  -> 0
      [] tpc = "done"  -> 1
      [] tpc = "spawn" -> 1 + spawn_left
      [] tpc = "heads" -> 3 + SNAKE_CAPACITY + RecordsLeft

\* A step of a running tick.
TickStep == GameTickRecord \/ GameTickClearTails \/ GameTickSpawn \/ GameTickReturn

\* A grid with every Empty cell taken by a snake.
Filled(g) ==
    [row \in 1..GRID_HEIGHT |-> [col \in 1..GRID_WIDTH |->
        IF g[row][col] = "Empty" THEN "Snake" ELSE g[row][col]]]

\* C31: from every reachable world and for every batch of inputs with valid
\* ids, tick terminates: while it runs a step of it is always possible, every
\* step brings it closer to its return, and it ends outside the tick; and a
\* call of spawn_apple on a grid without an Empty cell leaves the grid and
\* num_apples as they were.
C31_TickTerminates ==
    /\ [](InTick => ENABLED TickStep)
    /\ [](TickRank \in 0..(3 + 2 * SNAKE_CAPACITY))
    /\ [][InTick => TickRank' < TickRank]_vars
    /\ [](\A n \in 0..APPLE_CAPACITY :
            spawn_apple(Filled(grid), n) = {[grid |-> Filled(grid), num_apples |-> n]})

\* C31 witness: a tick is done in which an apple was eaten below capacity and
\* the respawn found no Empty cell in its attempts: num_apples is what it was.
C31_Witness ==
    /\ TickDone
    /\ consumed_apples = 1
    /\ pre_num_apples < APPLE_CAPACITY
    /\ num_apples = pre_num_apples
    /\ \E i \in Survivors : Ate(i)

----------------------------------------------------------------------------
(* tick_legacy (engine.rs:139-185) and SpecTrio: a world of three one-cell   *)
(* snakes built as the tests build them, apples added on Empty cells, and    *)
(* one tick, cache-aware or legacy.                                          *)

\* The snakes of the three-snake world.
TrioSnakes == 3

\* The ticks a behaviour of the three-snake world makes.
MaxTrioTicks == 1

\* snake.rs:139-167, GridAwareSnake::move_forward: the snake and the grid it
\* leaves, and the bool it returns
legacy_move_forward(snake, g, will_grow) ==
    LET new_head == calculate_new_head(snake) IN
    IF get_cell(g, new_head) = "Snake"
    THEN [snake |-> [snake EXCEPT !.is_alive = FALSE], grid |-> g, moved |-> FALSE]
    ELSE LET cleared == IF ~will_grow
                        THEN set_cell(g, snake.body[Len(snake.body)], "Empty")
                        ELSE g
             moved == move_forward(snake, will_grow)
         IN [snake |-> moved,
             grid |-> set_cell(cleared, moved.body[1], "Snake"),
             moved |-> TRUE]

\* engine.rs:150-177: the loop over the snakes in array order, from snake i
\* on; it is left at the first snake that eats (engine.rs:172).  An Apple
\* cell exists only while num_apples >= 1, so the decrement does not wrap.
RECURSIVE legacy_moves(_, _, _, _, _)
legacy_moves(snks, g, n, eaten, i) ==
    IF i \notin DOMAIN snks
    THEN [snakes |-> snks, grid |-> g, num_apples |-> n, consumed_apples |-> eaten]
    ELSE IF ~snks[i].is_alive
    THEN legacy_moves(snks, g, n, eaten, i + 1)
    ELSE LET will_eat_apple == get_cell(g, calculate_new_head(snks[i])) = "Apple"
             r == legacy_move_forward(snks[i], g, will_eat_apple)
             moved == [snks EXCEPT ![i] = r.snake]
         IN IF r.moved /\ will_eat_apple
            THEN [snakes |-> moved,
                  grid |-> set_cell(r.grid, r.snake.body[1], "Empty"),
                  num_apples |-> n - 1,
                  consumed_apples |-> eaten + 1]
            ELSE legacy_moves(moved, r.grid, n, eaten, i + 1)

\* engine.rs:180-184: `for _ in 0..consumed_apples { self.spawn_apple() }`
RECURSIVE legacy_spawn(_, _)
legacy_spawn(outs, k) ==
    IF k = 0 THEN outs
    ELSE legacy_spawn(UNION {spawn_apple(o.grid, o.num_apples) : o \in outs}, k - 1)

\* engine.rs:139-185: the worlds one call of tick_legacy can leave
tick_legacy(snks, g, n, ins) ==
    LET r == legacy_moves(apply_inputs(snks, ins, 1), g, n, 0, 0)
    IN {[snakes |-> r.snakes, grid |-> o.grid, num_apples |-> o.num_apples] :
           o \in legacy_spawn({[grid |-> r.grid, num_apples |-> r.num_apples]},
                              r.consumed_apples)}

InitTrio ==
    /\ InitRing /\ InitHist /\ inputs = <<>>
    /\ \E pos \in [0..(TrioSnakes - 1) -> Points],
          dir \in [0..(TrioSnakes - 1) -> Directions] :
          /\ \A i, j \in 0..(TrioSnakes - 1) : i # j => pos[i] # pos[j]
          /\ pos[0] = Pt(0, 0)
          /\ snakes = [i \in 0..(TrioSnakes - 1) |-> Snake_new(i, pos[i], dir[i])]
    /\ RandomReturned
    /\ grid = place_snakes(snakes, Grid_new, 0)
    /\ num_apples = 0
    /\ buckets = empty_buckets
    /\ tail_buckets = empty_buckets
    /\ TickIdle

\* add_apple on an Empty cell, before the tick.
TrioAddApple ==
    /\ ticks < MaxTrioTicks
    /\ GameAddAppleBelowCapacity

\* tick(&[]): the directions are the ones the snakes were built with.
TrioTickBegin ==
    /\ ticks < MaxTrioTicks
    /\ tick_begin(<<>>)
    /\ ticks' = ticks + 1
    /\ UNCHANGED queueVars

\* tick_legacy(&[]), one call.
TrioTickLegacy ==
    /\ tpc = "idle"
    /\ ticks < MaxTrioTicks
    /\ \E out \in tick_legacy(snakes, grid, num_apples, <<>>) :
          /\ snakes' = out.snakes
          /\ grid' = out.grid
          /\ num_apples' = out.num_apples
    /\ ticks' = ticks + 1
    /\ UNCHANGED <<queueVars, buckets, tail_buckets, randVars,
                   tpc, t_bucket, t_record, consumed_apples, previous_new_head, spawn_left,
                   pre_snakes, pre_grid, pre_num_apples, t_inputs, apple_refused>>

NextTrio ==
    \/ TrioAddApple
    \/ TrioTickBegin
    \/ TrioTickLegacy
    \/ GameTickRecord
    \/ GameTickClearTails
    \/ GameTickSpawn
    \/ GameTickReturn

SpecTrio == InitTrio /\ [][NextTrio]_vars

\* The worlds tick_legacy can leave when called, with no input, on the world
\* the running tick started from after its Phase 1.
LegacyOutcomes == tick_legacy(pre_snakes, pre_grid, pre_num_apples, <<>>)

\* Two snakes, and no other, head into the same cell, which holds Empty.
SharedEmptyTarget(i, j) ==
    /\ i < j
    /\ Contenders(NewHead(i)) = {i, j}
    /\ get_cell(pre_grid, NewHead(i)) = "Empty"

\* C32: when exactly two alive snakes head into the same Empty cell, the
\* cache-aware tick leaves the one with the lower index alive with its head
\* in the cell and the other one dead, and so does every outcome of
\* tick_legacy called on the same world.
C32_TicksAgreeOnSharedTarget ==
    TickDone =>
        \A i, j \in Movers :
            SharedEmptyTarget(i, j) =>
                /\ snakes[i].is_alive /\ snakes[i].body[1] = NewHead(i)
                /\ ~snakes[j].is_alive
                /\ \A out \in LegacyOutcomes :
                      /\ out.snakes[i].is_alive /\ out.snakes[i].body[1] = NewHead(i)
                      /\ ~out.snakes[j].is_alive

\* The cache-aware half of C32: the lower index alive in the cell, the higher
\* index dead.
C32_CacheAwareSide ==
    TickDone =>
        \A i, j \in Movers :
            SharedEmptyTarget(i, j) =>
                /\ snakes[i].is_alive /\ snakes[i].body[1] = NewHead(i)
                /\ ~snakes[j].is_alive

\* The legacy half of C32 when no snake before the higher index in the array
\* eats an apple: the lower index alive in the cell, the higher index dead.
C32_LegacySideWithoutEarlierEater ==
    TickDone =>
        \A i, j \in Movers :
            (SharedEmptyTarget(i, j) /\ \A k \in Movers : k < j => ~Ate(k)) =>
                \A out \in LegacyOutcomes :
                    /\ out.snakes[i].is_alive /\ out.snakes[i].body[1] = NewHead(i)
                    /\ ~out.snakes[j].is_alive

----------------------------------------------------------------------------
(* Claims about the grid and the counts over whole ticks *)

\* The cells of the grid that read Snake.
SnakeCells == {pt \in Points : get_cell(grid, pt) = "Snake"}

\* The snakes that were dead when the running tick started.
DeadBefore == {i \in DOMAIN pre_snakes : ~pre_snakes[i].is_alive}

C34_CountNeverDecreases ==
    /\ [][(InTick \/ tpc' # "idle") => num_apples' >= num_apples]_vars
    /\ [][RecordStep => num_apples' = num_apples]_vars
    /\ [][SpawnStep =>
            /\ num_apples' = (IF grid' # grid THEN num_apples + 1 ELSE num_apples)
            /\ grid' # grid => num_apples < APPLE_CAPACITY]_vars
    /\ [](TickDone =>
            /\ num_apples >= pre_num_apples
            /\ num_apples <= pre_num_apples + consumed_apples)

\* C34 witness: a tick is done in which a snake ate an apple and the respawn
\* found an Empty cell: the grid holds as many apples as before and the count
\* is one higher.
C34_Witness ==
    /\ TickDone
    /\ \E i \in Survivors : Ate(i)
    /\ Cardinality(AppleCells) = Cardinality(ApplesOn(pre_grid))
    /\ num_apples = pre_num_apples + 1

----------------------------------------------------------------------------
(* Claims about collisions between two snakes, engine.rs:223-259 *)

\* The cell at snake b's new_head reads Snake when b's record is processed
\* for a reason other than snake a: it held Snake when the tick started, or a
\* third snake committed its head there before.
BlockedWithout(b, a) ==
    \/ get_cell(pre_grid, NewHead(b)) = "Snake"
    \/ \E j \in Movers \ {a, b} :
          /\ ProcessedBefore(j, b)
          /\ NewHead(j) = NewHead(b)
          /\ Committed(j)

\* C35: the step that processes the record of a snake whose new_head is a
\* body cell of another snake marks that snake dead and changes no other
\* snake and no grid cell; at the end of the tick the snake is dead with the
\* body it had, and the other snake is alive exactly when it was alive and
\* its own target cell did not read Snake.
C35_CollisionKillsOnlyTheMover ==
    /\ [][(RecordStep /\ \E b \in DOMAIN snakes \ {CurrentRecord.snake_id} :
                            CurrentRecord.new_head
                                \in BodyCells(pre_snakes[b]) \cup BodyCells(snakes[b])) =>
            /\ ~snakes'[CurrentRecord.snake_id].is_alive
            /\ \A b \in DOMAIN snakes \ {CurrentRecord.snake_id} : snakes'[b] = snakes[b]
            /\ grid' = grid]_vars
    /\ [](TickDone =>
            \A a \in Movers : \A b \in DOMAIN pre_snakes \ {a} :
                NewHead(a) \in BodyCells(pre_snakes[b]) =>
                    /\ ~snakes[a].is_alive
                    /\ snakes[a].body = pre_snakes[a].body
                    /\ snakes[b].is_alive <=> (b \in Movers /\ ~BlockedWithout(b, a)))

\* C35 witness: a tick is done in which a snake ran into a body cell of the
\* other one and is dead, and the other one, processed after it, has moved on.
C35_Witness ==
    /\ TickDone
    /\ \E a, b \in Movers :
          /\ a # b
          /\ NewHead(a) \in BodyCells(pre_snakes[b])
          /\ ProcessedBefore(a, b)
          /\ ~snakes[a].is_alive
          /\ Committed(b)

\* Snakes a and b move into each other's head cell.
HeadSwap(a, b) ==
    /\ a # b
    /\ NewHead(a) = pre_snakes[b].body[1]
    /\ NewHead(b) = pre_snakes[a].body[1]

\* C36: two alive snakes each of whose new_head is the other one's head cell
\* are both dead at the end of the tick, each with the body it had, and every
\* cell of either body reads Snake as before.
C36_HeadSwapKillsBoth ==
    TickDone =>
        \A a, b \in Movers :
            HeadSwap(a, b) =>
                /\ ~snakes[a].is_alive /\ ~snakes[b].is_alive
                /\ snakes[a].body = pre_snakes[a].body
                /\ snakes[b].body = pre_snakes[b].body
                /\ \A pt \in BodyCells(pre_snakes[a]) \cup BodyCells(pre_snakes[b]) :
                      get_cell(grid, pt) = "Snake" /\ get_cell(pre_grid, pt) = "Snake"

\* C36 witness: a tick is done in which two snakes, one of them 2 cells or
\* longer, moved into each other's head cell and are dead.
C36_Witness ==
    /\ TickDone
    /\ \E a, b \in Movers :
          /\ HeadSwap(a, b)
          /\ Len(pre_snakes[a].body) >= 2
          /\ ~snakes[a].is_alive /\ ~snakes[b].is_alive

----------------------------------------------------------------------------
(* The snakes a tick leaves, as a function of the world and the batch *)

\* engine.rs:220-260 as one function: the records in the order of the
\* combined loop (bucket by bucket, in a bucket by snake index), each one read
\* against the grid the earlier ones left.  snks0 are the snakes after
\* Phase 1.
RECURSIVE snakes_after(_, _, _, _, _, _)
snakes_after(snks0, snks, g, prev, b, i) ==
    IF b >= NUM_BUCKETS THEN snks
    ELSE IF i \notin DOMAIN snks0 THEN snakes_after(snks0, snks, g, prev, b + 1, 0)
    ELSE IF \/ ~snks0[i].is_alive
            \/ bucket_of(calculate_new_head(snks0[i]).y) # b
    THEN snakes_after(snks0, snks, g, prev, b, i + 1)
    ELSE LET new_head == calculate_new_head(snks0[i])
             cell == get_cell(g, new_head)
         IN IF cell = "Snake" \/ prev = SomePoint(new_head)
            THEN snakes_after(snks0, [snks EXCEPT ![i].is_alive = FALSE],
                              g, prev, b, i + 1)
            ELSE snakes_after(snks0, [snks EXCEPT ![i] = move_forward(@, cell = "Apple")],
                              set_cell(g, new_head, "Snake"), SomePoint(new_head), b, i + 1)

\* engine.rs:188-260: the snakes after a tick of the world (snks, g) with the
\* batch ins.
tick_snakes(snks, g, ins) ==
    LET snks0 == apply_inputs(snks, ins, 1)
    IN snakes_after(snks0, snks0, g, NoPoint, 0, 0)

\* C37: the snakes a tick leaves (body, direction and alive flag of each) are
\* a function of the world it starts from and of its batch: the loop starts
\* from the snakes with the batch folded in and from the grid as it was, the
\* snakes before the first respawn and at the end of the tick are what
\* tick_snakes computes from those two, and no respawn changes a snake,
\* wherever it puts its apple.
C37_SnakesIndependentOfRespawn ==
    /\ [][BeginStep =>
            /\ pre_snakes' = apply_inputs(snakes, t_inputs', 1)
            /\ pre_grid' = grid]_vars
    /\ [][(InTick /\ tpc' # "idle") => UNCHANGED <<pre_snakes, pre_grid>>]_vars
    /\ [](tpc \in {"spawn", "done"} => snakes = tick_snakes(pre_snakes, pre_grid, <<>>))
    /\ [][SpawnStep => snakes' = snakes]_vars

\* C37 witness: a tick is done in which one snake ate, the apple was
\* respawned, and the other snake died.
C37_Witness ==
    /\ TickDone
    /\ num_apples = pre_num_apples + 1
    /\ \E i \in Survivors : Ate(i)
    /\ \E j \in Movers : ~snakes[j].is_alive

----------------------------------------------------------------------------
(* Claims about the batches of the main loop, main.rs:131-142 *)

\* The inputs the consumer has taken out of the ring for good: the batches
\* handed to tick so far and, outside a tick call, the batch being collected.
Collected == IF cpc = "tick" THEN ticked ELSE ticked \o inputs

\* The input consume() has returned and the loop has not pushed yet.
Returned == IF c_ret \notin {PENDING, None} THEN <<c_ret[2]>> ELSE <<>>

\* The step that calls tick.
TickCallStep == cpc # "tick" /\ cpc' = "tick"

\* C38: at every moment the batches handed to tick, concatenated in the order
\* of the calls, are a prefix of the inputs accepted by produce(); together
\* with the batch being collected and the input just returned they are
\* exactly the inputs consume() has returned, so no input is in two batches or
\* skipped; and a tick call appends exactly the collected batch.
C38_BatchesArePrefixOfProduced ==
    /\ [](IsPrefix(ticked, produced))
    /\ [](Collected \o Returned = consumed)
    /\ [](cpc = "tick" => inputs = SubSeq(ticked, Len(ticked) - Len(inputs) + 1, Len(ticked)))
    /\ [][TickCallStep => ticked' = ticked \o inputs /\ inputs' = inputs]_vars
    /\ [][~TickCallStep => ticked' = ticked]_vars

\* C38 witness: tick is running on a batch of 2 inputs or more that differ,
\* after an earlier batch and after the ring has wrapped, while produce() has
\* accepted inputs that are in no batch yet.
C38_Witness ==
    /\ cpc = "tick"
    /\ Len(inputs) >= 2
    /\ \E k \in 1..Len(inputs) : inputs[k] # inputs[1]
    /\ Len(ticked) > Len(inputs)
    /\ Len(ticked) > RingN
    /\ Len(produced) > Len(ticked)

\* C39: tick is called only right after consume() returned None with a batch
\* that is not empty, and runs on one; each call hands over at least one
\* input no earlier call got; and a drain that collected nothing goes back to
\* consume() without a call of tick.
C39_NoTickOnEmptyBatch ==
    /\ [](cpc = "tick" => inputs # <<>>)
    /\ [][TickCallStep =>
            /\ c_ret = None
            /\ inputs # <<>>
            /\ Len(ticked') > Len(ticked)]_vars
    /\ [][(cpc = "idle" /\ c_ret = None /\ inputs = <<>>
                /\ <<cpc, c_ret>>' # <<cpc, c_ret>>) =>
            /\ cpc' = "idle"
            /\ c_ret' = PENDING
            /\ ticked' = ticked]_vars
    /\ [](Len(ticked) <= Len(produced))

\* C39 witness: after a tick, a drain found the ring empty and collected
\* nothing, and every input accepted so far has been in a batch.
C39_Witness ==
    /\ cpc = "idle"
    /\ c_ret = None
    /\ inputs = <<>>
    /\ ticked # <<>>
    /\ ticked = produced

----------------------------------------------------------------------------
(* Claim about the previous_new_head test, engine.rs:232-237 *)

\* The record the next step processes aims at the head committed last.
AimsAtPreviousHead ==
    /\ RecordStep
    /\ previous_new_head = SomePoint(CurrentRecord.new_head)

\* C40: whenever the record to be processed has the new_head that the last
\* committed record had, the cell reads Snake, so the Snake-cell test kills
\* the record and the previous_new_head test is not reached with a match;
\* and during the head pass the cell of previous_new_head always reads Snake.
C40_PreviousHeadBranchIsDead ==
    /\ AimsAtPreviousHead => hits_snake(get_cell(grid, CurrentRecord.new_head))
    /\ (HeadPass /\ previous_new_head # NoPoint) =>
          get_cell(grid, previous_new_head[1]) = "Snake"

\* C40 witness: the record to be processed aims at the head that the record
\* before it committed on a cell that held an apple.
C40_Witness ==
    /\ AimsAtPreviousHead
    /\ get_cell(pre_grid, CurrentRecord.new_head) = "Apple"
    /\ \E j \in Movers :
          /\ j # CurrentRecord.snake_id
          /\ snakes[j].body[1] = CurrentRecord.new_head
          /\ Len(snakes[j].body) = Len(pre_snakes[j].body) + 1

====
